---- MODULE Spec2Model ----
(***************************************************************************)
(* A model of the MoneyWiz MCP server: a read-only snapshot of the         *)
(* ZSYNCOBJECT / ZCATEGORYASSIGMENT tables, the database layer's queries   *)
(* and analyses over it, and the tool handlers that call them.             *)
(*                                                                         *)
(* Amounts are float64 in the program; the model keeps them as integers    *)
(* (minor units), so sums are exact.  Quotients (savings rate, averages,   *)
(* percentages, impacts) are kept as exact fractions [n, d] with d > 0.    *)
(* Strings that the program compares with < or > (periods, dates) are      *)
(* sequences of byte codes, compared as Go compares strings; strings that  *)
(* are only used as keys or labels are TLA+ strings.                       *)
(***************************************************************************)
EXTENDS Integers, Sequences, FiniteSets, TLC

VARIABLES
    accounts,       \* ZSYNCOBJECT rows with Z_ENT IN (10, 11, 12, 13, 15, 16)
    transactions,   \* ZSYNCOBJECT rows with Z_ENT IN (37, 45, 46, 47, 43)
    categories,     \* ZSYNCOBJECT rows with Z_ENT = 19
    assignments,    \* ZCATEGORYASSIGMENT rows
    request,        \* the tool call last served: its name and arguments
    response,       \* the CallToolResult returned for it
    failures,       \* history: the calls that have returned an error result
    inflight        \* the calls that run concurrently, one record per goroutine

vars == <<accounts, transactions, categories, assignments, request, response,
          failures, inflight>>

\* What the one-call-at-a-time specifications leave alone.
aux == <<failures, inflight>>

snapshot == <<accounts, transactions, categories, assignments>>

-----------------------------------------------------------------------------
(* Bounds of the model.                                                    *)

MaxTxns == 3
MaxAccounts == 3
MaxFailures == 1
MaxCalls == 2

-----------------------------------------------------------------------------
(* Nullable columns, as database/sql's NullFloat64 / NullInt64 /           *)
(* NullString: a Valid flag and the value.                                 *)

NullNum == [Valid |-> FALSE, V |-> 0]
Num(x) == [Valid |-> TRUE, V |-> x]
NullStr == [Valid |-> FALSE, V |-> ""]
Str(s) == [Valid |-> TRUE, V |-> s]

\* SQL's comparison column = ? : never true of a NULL column.
SqlEq(col, x) == col.Valid /\ col.V = x

-----------------------------------------------------------------------------
(* Sequence helpers.                                                       *)

RECURSIVE SumSeq(_)
SumSeq(s) == IF s = << >> THEN 0 ELSE Head(s) + SumSeq(Tail(s))

RECURSIVE Flatten(_)
Flatten(ss) == IF ss = << >> THEN << >> ELSE Head(ss) \o Flatten(Tail(ss))

Swap(s, i, j) == [s EXCEPT ![i] = s[j], ![j] = s[i]]

\* Every order in which the elements of a finite set can be listed: the
\* orders in which Go's range over a map can deliver its keys.
RECURSIVE Orderings(_)
Orderings(S) ==
    IF S = {} THEN {<< >>}
    ELSE UNION {{<<x>> \o rest : rest \in Orderings(S \ {x})} : x \in S}

Abs(x) == IF x < 0 THEN -x ELSE x

-----------------------------------------------------------------------------
(* Byte strings and their comparison (Go's < on strings is bytewise        *)
(* lexicographic; a proper prefix is smaller).                             *)

Dash == 45
Space == 32
Colon == 58
Digit(d) == 48 + d
EmptyStr == << >>

RECURSIVE StrLess(_, _)
StrLess(a, b) ==
    IF b = << >> THEN FALSE
    ELSE IF a = << >> THEN TRUE
    ELSE IF Head(a) # Head(b) THEN Head(a) < Head(b)
    ELSE StrLess(Tail(a), Tail(b))

Digits2(n) == <<Digit((n \div 10) % 10), Digit(n % 10)>>
Digits4(n) == <<Digit((n \div 1000) % 10), Digit((n \div 100) % 10)>> \o Digits2(n)

-----------------------------------------------------------------------------
(* SQLite's datetime('2001-01-01', '+' || t || ' seconds') and strftime:   *)
(* the Core Data timestamp t (seconds since 2001-01-01 00:00:00) rendered  *)
(* in the proleptic Gregorian calendar.  datetime() yields NULL for a      *)
(* result past the last date SQLite renders (9999-12-31 23:59:59).  That    *)
(* instant does not fit TLC's integers; DateTimeLimit stands for it, and   *)
(* the snapshots use FarDate for a timestamp past it.                      *)

SecondsPerDay == 86400
DaysToEpoch == 730791          \* days from 0000-03-01 to 2001-01-01
DateTimeLimit == 2000000000
FarDate == DateTimeLimit + 1

Civil(t) ==
    LET z    == (t \div SecondsPerDay) + DaysToEpoch
        era  == z \div 146097
        doe  == z - era * 146097
        yoe  == (doe - doe \div 1460 + doe \div 36524 - doe \div 146096) \div 365
        doy  == doe - (365 * yoe + yoe \div 4 - yoe \div 100)
        mp   == (5 * doy + 2) \div 153
        d    == doy - (153 * mp + 2) \div 5 + 1
        m    == IF mp < 10 THEN mp + 3 ELSE mp - 9
        y    == yoe + era * 400 + (IF m <= 2 THEN 1 ELSE 0)
        sod  == t % SecondsPerDay
    IN  [year |-> y, month |-> m, day |-> d,
         hour |-> sod \div 3600, minute |-> (sod \div 60) % 60, second |-> sod % 60]

Renders(t) == t <= DateTimeLimit

\* strftime('%Y', ...), strftime('%Y-%m', ...), datetime(...): the empty
\* string stands for the NULL that Scan leaves as the field's zero value.
YearOf(t) == IF Renders(t) THEN Digits4(Civil(t).year) ELSE EmptyStr
MonthOf(t) ==
    IF Renders(t) THEN Digits4(Civil(t).year) \o <<Dash>> \o Digits2(Civil(t).month)
    ELSE EmptyStr
DateOf(t) ==
    IF Renders(t)
    THEN LET c == Civil(t)
         IN  Digits4(c.year) \o <<Dash>> \o Digits2(c.month) \o <<Dash>> \o Digits2(c.day)
             \o <<Space>> \o Digits2(c.hour) \o <<Colon>> \o Digits2(c.minute)
             \o <<Colon>> \o Digits2(c.second)
    ELSE EmptyStr

-----------------------------------------------------------------------------
(* The income and spending views (GetIncomeData, GetSpendingData).         *)

SecondsPerMonth == 2629746
Uncategorized == "Uncategorized"

\* SELECT MAX(ZDATE1) FROM ZSYNCOBJECT WHERE Z_ENT IN (37, 45, 46, 47, 43)
\* AND ZDATE1 IS NOT NULL: over every dated transaction, whatever its amount.
RECURSIVE MaxDateOf(_)
MaxDateOf(rows) ==
    IF rows = << >> THEN NullNum
    ELSE LET rest == MaxDateOf(Tail(rows))
             d    == Head(rows).ZDATE1
         IN  IF ~d.Valid THEN rest
             ELSE IF ~rest.Valid \/ d.V > rest.V THEN d
             ELSE rest

MaxDate == MaxDateOf(transactions)

\* InWindow with the cutoff in the query for every months, 0 included.
InWindowAlways(t, months) ==
    MaxDate.Valid /\ t.ZDATE1.V >= MaxDate.V - months * SecondsPerMonth

\* InWindow with a strict comparison: the row at the cutoff is left out.
InWindowExclusive(t, months) ==
    months > 0 => (MaxDate.Valid /\ t.ZDATE1.V > MaxDate.V - months * SecondsPerMonth)

\* t.ZDATE1 >= (SELECT MAX(ZDATE1) ...) - (? * 2629746), present in the
\* query only when months > 0.
InWindow(t, months) ==
    months > 0 => (MaxDate.Valid /\ t.ZDATE1.V >= MaxDate.V - months * SecondsPerMonth)

\* ORDER BY t.ZDATE1 DESC.  SQL leaves the order of rows with equal dates
\* open; the model keeps them in table order.
RECURSIVE InsertByDateDesc(_, _)
InsertByDateDesc(sorted, t) ==
    IF sorted = << >> THEN <<t>>
    ELSE IF Head(sorted).ZDATE1.V >= t.ZDATE1.V
         THEN <<Head(sorted)>> \o InsertByDateDesc(Tail(sorted), t)
         ELSE <<t>> \o sorted

RECURSIVE OrderByDateDesc(_)
OrderByDateDesc(rows) ==
    IF rows = << >> THEN << >>
    ELSE InsertByDateDesc(OrderByDateDesc(SubSeq(rows, 1, Len(rows) - 1)), rows[Len(rows)])

\* LEFT JOIN ZSYNCOBJECT c ON c.Z_PK = ca.ZCATEGORY AND c.Z_ENT = 19: the
\* category row of an assignment, or an all-NULL row when there is none.
CategoryOf(ca) ==
    LET found == SelectSeq(categories, LAMBDA c : c.Z_PK = ca.ZCATEGORY)
    IN  IF found = << >> THEN [Z_PK |-> NullNum, ZNAME2 |-> NullStr]
        ELSE [Z_PK |-> Num(found[1].Z_PK), ZNAME2 |-> found[1].ZNAME2]

\* LEFT JOIN ZCATEGORYASSIGMENT ca ON ca.ZTRANSACTION = t.Z_PK: one joined
\* row per assignment of the transaction, and one row with NULL category
\* columns for a transaction that has none.
JoinCategories(t) ==
    LET cas == SelectSeq(assignments, LAMBDA ca : ca.ZTRANSACTION = t.Z_PK)
    IN  IF cas = << >> THEN <<[t |-> t, c |-> [Z_PK |-> NullNum, ZNAME2 |-> NullStr]]>>
        ELSE [i \in 1..Len(cas) |-> [t |-> t, c |-> CategoryOf(cas[i])]]

\* The SELECT list and the Scan into SpendingData / IncomeData.
DataRow(j, amount) ==
    [CategoryID   |-> IF j.c.Z_PK.Valid THEN j.c.Z_PK.V ELSE 0,
     CategoryName |-> IF j.c.ZNAME2.Valid THEN j.c.ZNAME2.V ELSE Uncategorized,
     Amount       |-> amount,
     Date         |-> DateOf(j.t.ZDATE1.V),
     Month        |-> MonthOf(j.t.ZDATE1.V),
     Year         |-> YearOf(j.t.ZDATE1.V)]

JoinedRows(selected) ==
    LET ordered == OrderByDateDesc(selected)
    IN  Flatten([i \in 1..Len(ordered) |-> JoinCategories(ordered[i])])

\* GetSpendingData with t.ZAMOUNT1 <= 0 in the WHERE clause.
GetSpendingDataNonPositive(months) ==
    LET selected == SelectSeq(transactions, LAMBDA t :
                        /\ t.ZAMOUNT1.Valid /\ t.ZAMOUNT1.V <= 0
                        /\ t.ZDATE1.Valid
                        /\ InWindow(t, months))
        joined   == JoinedRows(selected)
    IN  [i \in 1..Len(joined) |-> DataRow(joined[i], Abs(joined[i].t.ZAMOUNT1.V))]

GetSpendingData(months) ==
    LET selected == SelectSeq(transactions, LAMBDA t :
                        /\ t.ZAMOUNT1.Valid /\ t.ZAMOUNT1.V < 0
                        /\ t.ZDATE1.Valid
                        /\ InWindow(t, months))
        joined   == JoinedRows(selected)
    IN  [i \in 1..Len(joined) |-> DataRow(joined[i], Abs(joined[i].t.ZAMOUNT1.V))]

\* GetIncomeData with the cutoff taken from the latest income, not from the
\* latest transaction of any amount.
GetIncomeDataOwnWindow(months) ==
    LET incomes  == SelectSeq(transactions, LAMBDA t :
                        t.ZAMOUNT1.Valid /\ t.ZAMOUNT1.V > 0 /\ t.ZDATE1.Valid)
        latest   == MaxDateOf(incomes)
        selected == SelectSeq(incomes, LAMBDA t :
                        months > 0 =>
                            t.ZDATE1.V >= latest.V - months * SecondsPerMonth)
        joined   == JoinedRows(selected)
    IN  [i \in 1..Len(joined) |-> DataRow(joined[i], joined[i].t.ZAMOUNT1.V)]

GetIncomeData(months) ==
    LET selected == SelectSeq(transactions, LAMBDA t :
                        /\ t.ZAMOUNT1.Valid /\ t.ZAMOUNT1.V > 0
                        /\ t.ZDATE1.Valid
                        /\ InWindow(t, months))
        joined   == JoinedRows(selected)
    IN  [i \in 1..Len(joined) |-> DataRow(joined[i], joined[i].t.ZAMOUNT1.V)]

-----------------------------------------------------------------------------
(* Trend aggregation (AnalyzeSpendingTrends, AnalyzeIncomeTrends).  A Go   *)
(* map is a function on its key set; a missing key reads as zero.          *)

EmptyMap == [k \in {} |-> 0]
MapGet(m, k) == IF k \in DOMAIN m THEN m[k] ELSE 0
MapPut(m, k, v) == [x \in DOMAIN m \cup {k} |-> IF x = k THEN v ELSE m[x]]

NormGroupBy(groupBy) == IF groupBy # "month" /\ groupBy # "year" THEN "month" ELSE groupBy

PeriodOf(row, groupBy) == IF groupBy = "year" THEN row.Year ELSE row.Month

\* AddToTrend without the `if period == ""` skip.
AddToTrendKeepingEmpty(trendsMap, row, groupBy) ==
    LET period == PeriodOf(row, groupBy)
        trend  == IF period \in DOMAIN trendsMap THEN trendsMap[period]
                  ELSE [Period |-> period, Total |-> 0, TransactionCount |-> 0,
                        ByCategory |-> EmptyMap]
    IN  MapPut(trendsMap, period,
               [Period           |-> period,
                Total            |-> trend.Total + row.Amount,
                TransactionCount |-> trend.TransactionCount + 1,
                ByCategory       |-> MapPut(trend.ByCategory, row.CategoryName,
                                         MapGet(trend.ByCategory, row.CategoryName)
                                             + row.Amount)])

\* AddToTrend with ByCategory[name] = amount in place of += amount.
AddToTrendOverwriting(trendsMap, row, groupBy) ==
    LET period == PeriodOf(row, groupBy)
        trend  == IF period \in DOMAIN trendsMap THEN trendsMap[period]
                  ELSE [Period |-> period, Total |-> 0, TransactionCount |-> 0,
                        ByCategory |-> EmptyMap]
    IN  IF period = EmptyStr THEN trendsMap
        ELSE MapPut(trendsMap, period,
                    [Period           |-> period,
                     Total            |-> trend.Total + row.Amount,
                     TransactionCount |-> trend.TransactionCount + 1,
                     ByCategory       |-> MapPut(trend.ByCategory, row.CategoryName,
                                              row.Amount)])

\* One pass of the grouping loop: the row is skipped when its period is
\* empty, else it is added to its period's trend.
AddToTrend(trendsMap, row, groupBy) ==
    LET period == PeriodOf(row, groupBy)
        trend  == IF period \in DOMAIN trendsMap THEN trendsMap[period]
                  ELSE [Period |-> period, Total |-> 0, TransactionCount |-> 0,
                        ByCategory |-> EmptyMap]
    IN  IF period = EmptyStr THEN trendsMap
        ELSE MapPut(trendsMap, period,
                    [Period           |-> period,
                     Total            |-> trend.Total + row.Amount,
                     TransactionCount |-> trend.TransactionCount + 1,
                     ByCategory       |-> MapPut(trend.ByCategory, row.CategoryName,
                                              MapGet(trend.ByCategory, row.CategoryName)
                                                  + row.Amount)])

RECURSIVE GroupByPeriod(_, _, _)
GroupByPeriod(trendsMap, rows, groupBy) ==
    IF rows = << >> THEN trendsMap
    ELSE GroupByPeriod(AddToTrend(trendsMap, Head(rows), groupBy), Tail(rows), groupBy)

\* "Simple sort by period string": for i, for j > i, swap when
\* trends[i].Period > trends[j].Period.
\* The inner loop starting at j = i + 2: neighbours are never compared.
RECURSIVE SortInnerSkipping(_, _, _)
SortInnerSkipping(trends, i, j) ==
    IF j > Len(trends) THEN trends
    ELSE IF j = i + 1 THEN SortInnerSkipping(trends, i, j + 1)
    ELSE SortInnerSkipping(IF StrLess(trends[j].Period, trends[i].Period)
                           THEN Swap(trends, i, j) ELSE trends, i, j + 1)

RECURSIVE SortInner(_, _, _)
SortInner(trends, i, j) ==
    IF j > Len(trends) THEN trends
    ELSE SortInner(IF StrLess(trends[j].Period, trends[i].Period)
                   THEN Swap(trends, i, j) ELSE trends, i, j + 1)

RECURSIVE SortOuter(_, _)
SortOuter(trends, i) ==
    IF i >= Len(trends) THEN trends
    ELSE SortOuter(SortInner(trends, i, i + 1), i + 1)

SortByPeriod(trends) == SortOuter(trends, 1)

\* The slice built by ranging over the map in the order `order`, sorted.
TrendsOf(rows, groupBy, order) ==
    LET trendsMap == GroupByPeriod(EmptyMap, rows, NormGroupBy(groupBy))
    IN  SortByPeriod([i \in 1..Len(order) |-> trendsMap[order[i]]])

TrendKeys(rows, groupBy) == DOMAIN GroupByPeriod(EmptyMap, rows, NormGroupBy(groupBy))

-----------------------------------------------------------------------------
(* Exact fractions for the float64 quotients: [n, d] with d > 0.           *)

Frac(n, d) == IF d < 0 THEN [n |-> 0 - n, d |-> 0 - d] ELSE [n |-> n, d |-> d]
Whole(x) == [n |-> x, d |-> 1]
FracLess(a, b) == a.n * b.d < b.n * a.d
FracEq(a, b) == a.n * b.d = b.n * a.d
FracDiv(a, b) == Frac(a.n * b.d, a.d * b.n)

-----------------------------------------------------------------------------
(* float64 where the rounding decides a comparison: the spending ratio is  *)
(* a quotient of two quotients that were each rounded before.  A positive  *)
(* float64 is [m, e], the value m * 2^e with 2^52 <= m < 2^53; m is kept    *)
(* as three digits <<high, middle, low>> to the base 2^20, which holds the *)
(* 60 bits of a mantissa times 100 in 32-bit integers.                     *)

Limb == 1048576

LimbsOf(n) == <<0, n \div Limb, n % Limb>>

LGeq(x, y) ==
    \/ x[1] > y[1]
    \/ x[1] = y[1] /\ x[2] > y[2]
    \/ x[1] = y[1] /\ x[2] = y[2] /\ x[3] >= y[3]

\* x - y for x >= y.
LSub(x, y) ==
    <<x[1] - y[1] - (IF x[2] - y[2] - (IF x[3] < y[3] THEN 1 ELSE 0) < 0 THEN 1 ELSE 0),
      (x[2] - y[2] - (IF x[3] < y[3] THEN 1 ELSE 0) + Limb) % Limb,
      (x[3] - y[3] + Limb) % Limb>>

\* x * k for an integer k below 2^10.
LTimes(x, k) ==
    <<x[1] * k + (x[2] * k + (x[3] * k) \div Limb) \div Limb,
      (x[2] * k + (x[3] * k) \div Limb) % Limb,
      (x[3] * k) % Limb>>

LHalf(x) ==
    <<x[1] \div 2,
      (x[1] % 2) * (Limb \div 2) + x[2] \div 2,
      (x[2] % 2) * (Limb \div 2) + x[3] \div 2>>

LOdd(x) == x[3] % 2 = 1

LSucc(x) ==
    IF x[3] + 1 < Limb THEN <<x[1], x[2], x[3] + 1>>
    ELSE IF x[2] + 1 < Limb THEN <<x[1], x[2] + 1, 0>>
    ELSE <<x[1] + 1, 0, 0>>

\* 2^52, 2^53 and 2^54: the bounds of a 53-bit mantissa and of a quotient
\* with its guard bit.
Two52 == <<4096, 0, 0>>
Two53 == <<8192, 0, 0>>
Two54 == <<16384, 0, 0>>

\* Round to nearest, ties to even: q >= 2^53 holds the leading bits of the
\* exact result q * 2^e, sticky says that bits below q were dropped.
RECURSIVE RoundFloat64(_, _, _)
RoundFloat64(q, sticky, e) ==
    IF LGeq(q, Two54) THEN RoundFloat64(LHalf(q), sticky \/ LOdd(q), e + 1)
    ELSE IF LOdd(q) /\ (sticky \/ LOdd(LHalf(q)))
    THEN IF LSucc(LHalf(q)) = Two53 THEN [m |-> Two52, e |-> e + 2]
         ELSE [m |-> LSucc(LHalf(q)), e |-> e + 1]
    ELSE [m |-> LHalf(q), e |-> e + 1]

\* float64(n) for an integer 0 < n < 2^31: exact.
RECURSIVE Normalise(_, _)
Normalise(m, e) == IF LGeq(m, Two52) THEN [m |-> m, e |-> e] ELSE Normalise(LTimes(m, 2), e - 1)

Float64OfInt(n) == Normalise(LimbsOf(n), 0)

\* The quotient bit by bit: q the bits so far, r < d the remainder.
RECURSIVE LongDivision(_, _, _, _)
LongDivision(q, r, d, e) ==
    IF LGeq(q, Two53) THEN RoundFloat64(q, r # <<0, 0, 0>>, e)
    ELSE IF LGeq(LTimes(r, 2), d)
    THEN LongDivision(LSucc(LTimes(q, 2)), LSub(LTimes(r, 2), d), d, e - 1)
    ELSE LongDivision(LTimes(q, 2), LTimes(r, 2), d, e - 1)

\* x / y, correctly rounded.
Float64Div(x, y) ==
    IF LGeq(x.m, y.m) THEN LongDivision(<<0, 0, 1>>, LSub(x.m, y.m), y.m, x.e - y.e)
    ELSE LongDivision(<<0, 0, 0>>, x.m, y.m, x.e - y.e)

\* x * k for an integer constant 0 < k < 2^7, correctly rounded.
Float64Mul(x, k) == RoundFloat64(LTimes(x.m, 2 * k), FALSE, x.e - 1)

Float64Less(x, y) == x.e < y.e \/ (x.e = y.e /\ ~LGeq(x.m, y.m))

-----------------------------------------------------------------------------
(* Savings analysis (AnalyzeSavings, generateSavingsRecommendations).      *)
(* The Description of a recommendation is a rendering of the figures the   *)
(* other fields carry and is left out; the category a title names is kept  *)
(* beside the title.                                                       *)

DefaultMonths == 6
TopN == 5

\* The default applied to months = 0 only: a negative value goes through.
EffectiveMonthsZeroOnly(months) == IF months = 0 THEN DefaultMonths ELSE months

\* if months <= 0 { months = 6 }
EffectiveMonths(months) == IF months <= 0 THEN DefaultMonths ELSE months

\* The rate taken over the spending in place of the income.
SavingsRateOverSpending(totalIncome, totalSpending) ==
    IF totalSpending > 0 THEN Frac((totalIncome - totalSpending) * 100, totalSpending)
    ELSE Whole(0)

\* savingsRate = (netSavings / totalIncome) * 100 when totalIncome > 0, else 0.
SavingsRate(totalIncome, totalSpending) ==
    IF totalIncome > 0 THEN Frac((totalIncome - totalSpending) * 100, totalIncome)
    ELSE Whole(0)

Recommendation(type, title, category, priority, impact) ==
    [Type |-> type, Title |-> title, Category |-> category, Priority |-> priority,
     Impact |-> impact]

\* The tier chain with the impact of the Low and Moderate tiers taken as
\* netSavings - 0.20 * income.
TierRecommendationSurplus(savingsRate, totalIncome, totalSpending) ==
    IF FracLess(savingsRate, Whole(0))
    THEN Recommendation("warning", "Negative Savings Rate", "", "high",
                        Whole(Abs(totalSpending - totalIncome)))
    ELSE IF FracLess(savingsRate, Whole(10))
    THEN Recommendation("warning", "Low Savings Rate", "", "high",
                        Frac(100 * (totalIncome - totalSpending) - 20 * totalIncome, 100))
    ELSE IF FracLess(savingsRate, Whole(20))
    THEN Recommendation("suggestion", "Moderate Savings Rate", "", "medium",
                        Frac(100 * (totalIncome - totalSpending) - 20 * totalIncome, 100))
    ELSE Recommendation("positive", "Excellent Savings Rate", "", "low", Whole(0))

\* The tier chain with <= at the 10% and 20% marks.
TierRecommendationInclusive(savingsRate, totalIncome, totalSpending) ==
    IF FracLess(savingsRate, Whole(0))
    THEN Recommendation("warning", "Negative Savings Rate", "", "high",
                        Whole(Abs(totalSpending - totalIncome)))
    ELSE IF ~FracLess(Whole(10), savingsRate)
    THEN Recommendation("warning", "Low Savings Rate", "", "high",
                        Frac(20 * totalIncome - 100 * (totalIncome - totalSpending), 100))
    ELSE IF ~FracLess(Whole(20), savingsRate)
    THEN Recommendation("suggestion", "Moderate Savings Rate", "", "medium",
                        Frac(20 * totalIncome - 100 * (totalIncome - totalSpending), 100))
    ELSE Recommendation("positive", "Excellent Savings Rate", "", "low", Whole(0))

\* The if / else if chain over the savings rate: one recommendation.
TierRecommendation(savingsRate, totalIncome, totalSpending) ==
    IF FracLess(savingsRate, Whole(0))
    THEN Recommendation("warning", "Negative Savings Rate", "", "high",
                        Whole(Abs(totalSpending - totalIncome)))
    ELSE IF FracLess(savingsRate, Whole(10))
    THEN Recommendation("warning", "Low Savings Rate", "", "high",
                        Frac(20 * totalIncome - 100 * (totalIncome - totalSpending), 100))
    ELSE IF FracLess(savingsRate, Whole(20))
    THEN Recommendation("suggestion", "Moderate Savings Rate", "", "medium",
                        Frac(20 * totalIncome - 100 * (totalIncome - totalSpending), 100))
    ELSE Recommendation("positive", "Excellent Savings Rate", "", "low", Whole(0))

\* The category rules with the first one firing at a share of 30% too.
CategoryRecommendationsInclusive(avgMonthlySpending, topCategories) ==
    IF topCategories = << >> THEN << >>
    ELSE LET topCategory == topCategories[1]
             highSpendingCount ==
                 Cardinality({i \in DOMAIN topCategories :
                                 FracLess(Whole(15), topCategories[i].Percentage)})
         IN  (IF ~FracLess(topCategory.Percentage, Whole(30))
              THEN <<Recommendation("suggestion", "Review Spending on",
                                    topCategory.CategoryName, "medium",
                                    Frac(topCategory.TotalAmount * 10, 100))>>
              ELSE << >>)
             \o (IF highSpendingCount >= 3
                 THEN <<Recommendation("suggestion", "Multiple High-Spending Categories", "",
                                       "medium",
                                       Frac(avgMonthlySpending.n * 5, avgMonthlySpending.d * 100))>>
                 ELSE << >>)

\* "Review Spending on <category>" and "Multiple High-Spending Categories".
CategoryRecommendations(avgMonthlySpending, topCategories) ==
    IF topCategories = << >> THEN << >>
    ELSE LET topCategory == topCategories[1]
             highSpendingCount ==
                 Cardinality({i \in DOMAIN topCategories :
                                 FracLess(Whole(15), topCategories[i].Percentage)})
         IN  (IF FracLess(Whole(30), topCategory.Percentage)
              THEN <<Recommendation("suggestion", "Review Spending on",
                                    topCategory.CategoryName, "medium",
                                    Frac(topCategory.TotalAmount * 10, 100))>>
              ELSE << >>)
             \o (IF highSpendingCount >= 3
                 THEN <<Recommendation("suggestion", "Multiple High-Spending Categories", "",
                                       "medium",
                                       Frac(avgMonthlySpending.n * 5, avgMonthlySpending.d * 100))>>
                 ELSE << >>)

\* spendingRatio = (avgMonthlySpending / avgMonthlyIncome) * 100 when
\* avgMonthlyIncome > 0, else 0; spendingRatio > 90.  The three roundings move
\* the quotient by less than one part in 2^50 and an exact ratio of totals
\* below 2^31 other than 90 is farther from 90 than that, so the float64
\* comparison is taken where the exact ratio is 90 and the exact one elsewhere.
\* An average is its total divided by float64(months), rounded.
SpendingRatioOver90(avgMonthlyIncome, avgMonthlySpending) ==
    IF ~FracLess(Whole(0), avgMonthlyIncome) THEN FALSE
    ELSE IF ~FracEq(FracDiv(avgMonthlySpending, avgMonthlyIncome), Frac(90, 100))
    THEN FracLess(Frac(90, 100), FracDiv(avgMonthlySpending, avgMonthlyIncome))
    ELSE Float64Less(Float64OfInt(90),
                     Float64Mul(Float64Div(Float64Div(Float64OfInt(avgMonthlySpending.n),
                                                      Float64OfInt(avgMonthlySpending.d)),
                                           Float64Div(Float64OfInt(avgMonthlyIncome.n),
                                                      Float64OfInt(avgMonthlyIncome.d))),
                                100))

\* "High Spending Ratio".
RatioRecommendations(avgMonthlyIncome, avgMonthlySpending) ==
    IF SpendingRatioOver90(avgMonthlyIncome, avgMonthlySpending)
    THEN <<Recommendation("warning", "High Spending Ratio", "", "high",
                          Frac(avgMonthlySpending.n * 10, avgMonthlySpending.d * 100))>>
    ELSE << >>

\* "Build Emergency Fund".
EmergencyRecommendations(totalIncome, totalSpending, avgMonthlyIncome, avgMonthlySpending) ==
    IF FracLess(Whole(0), avgMonthlyIncome) /\ FracLess(Whole(0), avgMonthlySpending)
    THEN LET monthsOfExpenses == FracDiv(Whole(totalIncome - totalSpending), avgMonthlySpending)
         IN  IF FracLess(monthsOfExpenses, Whole(3))
             THEN <<Recommendation("suggestion", "Build Emergency Fund", "", "high",
                                   Frac(avgMonthlySpending.n * 3, avgMonthlySpending.d))>>
             ELSE << >>
    ELSE << >>

\* The rules with the spending-ratio rule moved before the category rules.
generateSavingsRecommendationsRatioFirst(savingsRate, totalIncome, totalSpending, avgMonthlyIncome, avgMonthlySpending, topCategories) ==
    <<TierRecommendation(savingsRate, totalIncome, totalSpending)>>
    \o RatioRecommendations(avgMonthlyIncome, avgMonthlySpending)
    \o CategoryRecommendations(avgMonthlySpending, topCategories)
    \o EmergencyRecommendations(totalIncome, totalSpending, avgMonthlyIncome,
                                avgMonthlySpending)

generateSavingsRecommendations(savingsRate, totalIncome, totalSpending, avgMonthlyIncome, avgMonthlySpending, topCategories) ==
    <<TierRecommendation(savingsRate, totalIncome, totalSpending)>>
    \o CategoryRecommendations(avgMonthlySpending, topCategories)
    \o RatioRecommendations(avgMonthlyIncome, avgMonthlySpending)
    \o EmergencyRecommendations(totalIncome, totalSpending, avgMonthlyIncome,
                                avgMonthlySpending)

\* spendingByCategory (counts) and spendingAmountByCategory (amounts).
RECURSIVE SpendingByCategory(_, _)
SpendingByCategory(byCategory, rows) ==
    IF rows = << >> THEN byCategory
    ELSE LET name == Head(rows).CategoryName
             old  == IF name \in DOMAIN byCategory THEN byCategory[name]
                     ELSE [count |-> 0, amount |-> 0]
         IN  SpendingByCategory(
                 MapPut(byCategory, name,
                        [count |-> old.count + 1, amount |-> old.amount + Head(rows).Amount]),
                 Tail(rows))

\* "Sort by amount descending": for i, for j > i, swap when
\* topCategories[i].amount < topCategories[j].amount.
\* The inner loop swapping when topCategories[i].amount is the greater one.
RECURSIVE SortTopInnerAscending(_, _, _)
SortTopInnerAscending(top, i, j) ==
    IF j > Len(top) THEN top
    ELSE SortTopInnerAscending(IF top[i].amount > top[j].amount THEN Swap(top, i, j)
                               ELSE top, i, j + 1)

RECURSIVE SortTopInner(_, _, _)
SortTopInner(top, i, j) ==
    IF j > Len(top) THEN top
    ELSE SortTopInner(IF top[i].amount < top[j].amount THEN Swap(top, i, j) ELSE top,
                      i, j + 1)

RECURSIVE SortTopOuter(_, _)
SortTopOuter(top, i) ==
    IF i >= Len(top) THEN top
    ELSE SortTopOuter(SortTopInner(top, i, i + 1), i + 1)

\* The top spending categories: the map ranged over in the order `order`,
\* sorted, cut to five, each with its share of the total spending.
TopSpendingCategories(byCategory, totalSpending, order) ==
    LET listed == [i \in 1..Len(order) |->
                      [name |-> order[i], amount |-> byCategory[order[i]].amount,
                       count |-> byCategory[order[i]].count]]
        sorted == SortTopOuter(listed, 1)
        topN   == IF Len(sorted) < TopN THEN Len(sorted) ELSE TopN
    IN  [i \in 1..topN |->
            [CategoryName     |-> sorted[i].name,
             TotalAmount      |-> sorted[i].amount,
             Percentage       |-> IF totalSpending > 0
                                  THEN Frac(sorted[i].amount * 100, totalSpending)
                                  ELSE Whole(0),
             TransactionCount |-> sorted[i].count]]

SpendingCategoryKeys(months) ==
    DOMAIN SpendingByCategory(EmptyMap, GetSpendingData(EffectiveMonths(months)))

\* totalIncome += data.Amount, totalSpending += data.Amount
TotalAmount(rows) == SumSeq([i \in DOMAIN rows |-> rows[i].Amount])

\* The SavingsAnalysis built from the totals and the category map.
SavingsAnalysisOf(months, totalIncome, totalSpending, byCategory, order) ==
    LET savingsRate == SavingsRate(totalIncome, totalSpending)
        avgIncome   == Frac(totalIncome, months)
        avgSpending == Frac(totalSpending, months)
        top         == TopSpendingCategories(byCategory, totalSpending, order)
    IN  [Period                 |-> <<"Last", months, "months">>,
         TotalIncome            |-> totalIncome,
         TotalSpending          |-> totalSpending,
         NetSavings             |-> totalIncome - totalSpending,
         SavingsRate            |-> savingsRate,
         AverageMonthlyIncome   |-> avgIncome,
         AverageMonthlySpending |-> avgSpending,
         TopSpendingCategories  |-> top,
         Recommendations        |->
             generateSavingsRecommendations(savingsRate, totalIncome, totalSpending,
                                            avgIncome, avgSpending, top)]

\* Read 1 is the income query, read 2 the spending query.
AnalyzeSavings(monthsArg, fault, order) ==
    IF fault = 1 THEN [err |-> TRUE, text |-> "failed to get income data"]
    ELSE IF fault = 2 THEN [err |-> TRUE, text |-> "failed to get spending data"]
    ELSE [err      |-> FALSE,
          text     |-> "",
          analysis |->
              SavingsAnalysisOf(
                  EffectiveMonths(monthsArg),
                  TotalAmount(GetIncomeData(EffectiveMonths(monthsArg))),
                  TotalAmount(GetSpendingData(EffectiveMonths(monthsArg))),
                  SpendingByCategory(EmptyMap, GetSpendingData(EffectiveMonths(monthsArg))),
                  order)]

-----------------------------------------------------------------------------
(* Accounts and their computed balances (GetAccounts,                      *)
(* calculateAccountBalance, GetAccountBalance).  Every function that reads *)
(* storage takes `fault`, the ordinal of the read of the call that fails   *)
(* (0: none), and returns its error beside its value.                      *)

\* AND (ZACCOUNT2 = ? OR ZACCOUNT = ?) AND ZAMOUNT1 IS NOT NULL
LinkedTo(t, accountID) ==
    /\ SqlEq(t.ZACCOUNT2, accountID) \/ SqlEq(t.ZACCOUNT, accountID)
    /\ t.ZAMOUNT1.Valid

\* The same WHERE clause with a UNION ALL of the two link columns: a row
\* whose two columns both name the account is taken twice.
RECURSIVE TransactionSumPerColumn(_, _)
TransactionSumPerColumn(rows, accountID) ==
    IF rows = << >> THEN 0
    ELSE (IF SqlEq(Head(rows).ZACCOUNT2, accountID) /\ Head(rows).ZAMOUNT1.Valid
          THEN Head(rows).ZAMOUNT1.V ELSE 0)
         + (IF SqlEq(Head(rows).ZACCOUNT, accountID) /\ Head(rows).ZAMOUNT1.Valid
            THEN Head(rows).ZAMOUNT1.V ELSE 0)
         + TransactionSumPerColumn(Tail(rows), accountID)

\* SELECT COALESCE(SUM(ZAMOUNT1), 0) FROM ZSYNCOBJECT WHERE ...
RECURSIVE TransactionSum(_, _)
TransactionSum(rows, accountID) ==
    IF rows = << >> THEN 0
    ELSE (IF LinkedTo(Head(rows), accountID) THEN Head(rows).ZAMOUNT1.V ELSE 0)
         + TransactionSum(Tail(rows), accountID)

calculateAccountBalance(accountID, openingBalance, fails) ==
    LET opening == IF openingBalance.Valid THEN openingBalance.V ELSE 0
    IN  IF fails THEN [err |-> TRUE, value |-> opening]
        ELSE [err |-> FALSE, value |-> opening + TransactionSum(transactions, accountID)]

\* The Account built from a row: the computed balance, or on a failed sum
\* read the opening balance, else the stored balance, else 0.
AccountOf(row, fails) ==
    LET calc == calculateAccountBalance(row.Z_PK, row.ZOPENINGBALANCE, fails)
    IN  [ID          |-> row.Z_PK,
         Name        |-> IF row.ZNAME.Valid THEN row.ZNAME.V ELSE EmptyStr,
         Balance     |-> IF ~calc.err THEN calc.value
                         ELSE IF row.ZOPENINGBALANCE.Valid THEN row.ZOPENINGBALANCE.V
                         ELSE IF row.ZBALLANCE.Valid THEN row.ZBALLANCE.V
                         ELSE 0,
         Currency    |-> IF row.ZCURRENCYNAME.Valid THEN row.ZCURRENCYNAME.V ELSE "",
         AccountType |-> IF row.ZTYPE.Valid THEN row.ZTYPE.V ELSE ""]

\* ORDER BY ZNAME; rows of equal name stay in table order.
RECURSIVE InsertByName(_, _)
InsertByName(sorted, row) ==
    IF sorted = << >> THEN <<row>>
    ELSE IF StrLess(row.ZNAME.V, Head(sorted).ZNAME.V) THEN <<row>> \o sorted
    ELSE <<Head(sorted)>> \o InsertByName(Tail(sorted), row)

RECURSIVE OrderByName(_)
OrderByName(rows) ==
    IF rows = << >> THEN << >>
    ELSE InsertByName(OrderByName(SubSeq(rows, 1, Len(rows) - 1)), rows[Len(rows)])

NamedAccounts == OrderByName(SelectSeq(accounts, LAMBDA row : row.ZNAME.Valid))

\* Read 1 is the account query, read 1 + i the sum read of the i-th row.
GetAccounts(fault) ==
    IF fault = 1 THEN [err |-> TRUE, text |-> "failed to query accounts", accounts |-> << >>]
    ELSE [err      |-> FALSE,
          text     |-> "",
          accounts |-> [i \in 1..Len(NamedAccounts) |->
                           AccountOf(NamedAccounts[i], fault = 1 + i)]]

\* fmt.Errorf("account with ID %d not found", accountID)
NotFoundText(accountID) == <<"account with ID", accountID, "not found">>

\* GetAccountBalance that takes sql.ErrNoRows for an empty account and
\* returns the zero Account.
GetAccountBalanceZeroValue(accountID, fault) ==
    LET found == SelectSeq(accounts, LAMBDA row : row.Z_PK = accountID)
    IN  IF fault = 1 THEN [err |-> TRUE, text |-> "failed to query account"]
        ELSE IF found = << >>
        THEN [err |-> FALSE, text |-> "",
              account |-> [ID |-> 0, Name |-> EmptyStr, Balance |-> 0, Currency |-> "",
                           AccountType |-> ""]]
        ELSE [err |-> FALSE, text |-> "", account |-> AccountOf(found[1], fault = 2)]

\* Read 1 is the account query (WHERE ... AND Z_PK = ?), read 2 the sum read.
GetAccountBalance(accountID, fault) ==
    LET found == SelectSeq(accounts, LAMBDA row : row.Z_PK = accountID)
    IN  IF fault = 1 THEN [err |-> TRUE, text |-> "failed to query account"]
        ELSE IF found = << >> THEN [err |-> TRUE, text |-> NotFoundText(accountID)]
        ELSE [err |-> FALSE, text |-> "", account |-> AccountOf(found[1], fault = 2)]

-----------------------------------------------------------------------------
(* Transactions (GetTransactions).                                         *)

\* ORDER BY ZDATE1 DESC: SQLite puts NULL after every value in descending
\* order; rows of equal date stay in table order.
DateNotAfter(a, b) == ~a.Valid \/ (b.Valid /\ a.V <= b.V)

RECURSIVE InsertByDateDescNullsLast(_, _)
InsertByDateDescNullsLast(sorted, t) ==
    IF sorted = << >> THEN <<t>>
    ELSE IF DateNotAfter(t.ZDATE1, Head(sorted).ZDATE1)
         THEN <<Head(sorted)>> \o InsertByDateDescNullsLast(Tail(sorted), t)
         ELSE <<t>> \o sorted

RECURSIVE OrderByDateDescNullsLast(_)
OrderByDateDescNullsLast(rows) ==
    IF rows = << >> THEN << >>
    ELSE InsertByDateDescNullsLast(
             OrderByDateDescNullsLast(SubSeq(rows, 1, Len(rows) - 1)), rows[Len(rows)])

\* LIMIT ?: a negative limit is no limit.
Limit(rows, limit) ==
    IF limit < 0 \/ limit >= Len(rows) THEN rows ELSE SubSeq(rows, 1, limit)

\* rows.Scan(&txn.ID, &txn.Amount, &date, &desc, &txn.AccountID)
TransactionOf(t) ==
    [ID          |-> t.Z_PK,
     Amount      |-> t.ZAMOUNT1.V,
     Date        |-> IF t.ZDATE1.Valid THEN DateOf(t.ZDATE1.V) ELSE EmptyStr,
     Description |-> IF t.ZDESC2.Valid THEN t.ZDESC2.V ELSE "",
     AccountID   |-> t.ZACCOUNT2.V]

\* Read 1 is the query.  The account filter is in the query only when
\* accountID > 0; Scan of a NULL ZACCOUNT2 into the int64 AccountID fails.
GetTransactions(accountID, limit, fault) ==
    LET selected == SelectSeq(transactions, LAMBDA t :
                        /\ t.ZAMOUNT1.Valid
                        /\ accountID > 0 =>
                               SqlEq(t.ZACCOUNT2, accountID) \/ SqlEq(t.ZACCOUNT, accountID))
        rows     == Limit(OrderByDateDescNullsLast(selected), limit)
    IN  IF fault = 1 THEN [err |-> TRUE, text |-> "failed to query transactions"]
        ELSE IF \E i \in DOMAIN rows : ~rows[i].ZACCOUNT2.Valid
        THEN [err |-> TRUE, text |-> "failed to scan transaction"]
        ELSE [err |-> FALSE, text |-> "",
              transactions |-> [i \in DOMAIN rows |-> TransactionOf(rows[i])]]

-----------------------------------------------------------------------------
(* Net worth (CalculateNetWorth).                                          *)

\* The loop body with every balance added to the assets, whatever its sign.
AddToNetWorthUnsigned(nw, acc) ==
    [TotalAssets      |-> nw.TotalAssets + acc.Balance,
     TotalLiabilities |-> nw.TotalLiabilities,
     ByCurrency       |-> IF acc.Currency # ""
                          THEN MapPut(nw.ByCurrency, acc.Currency,
                                      MapGet(nw.ByCurrency, acc.Currency) + acc.Balance)
                          ELSE nw.ByCurrency,
     Accounts         |-> Append(nw.Accounts,
                              [ID |-> acc.ID, Name |-> acc.Name, Balance |-> acc.Balance,
                               Currency |-> acc.Currency, Type |-> acc.AccountType])]

\* The loop body without the `acc.Currency != ""` test.
AddToNetWorthAnyCurrency(nw, acc) ==
    [TotalAssets      |-> IF acc.Balance >= 0 THEN nw.TotalAssets + acc.Balance
                          ELSE nw.TotalAssets,
     TotalLiabilities |-> IF acc.Balance >= 0 THEN nw.TotalLiabilities
                          ELSE nw.TotalLiabilities + Abs(acc.Balance),
     ByCurrency       |-> MapPut(nw.ByCurrency, acc.Currency,
                                 MapGet(nw.ByCurrency, acc.Currency) + acc.Balance),
     Accounts         |-> Append(nw.Accounts,
                              [ID |-> acc.ID, Name |-> acc.Name, Balance |-> acc.Balance,
                               Currency |-> acc.Currency, Type |-> acc.AccountType])]

\* One pass of the loop over the accounts.
AddToNetWorth(nw, acc) ==
    [TotalAssets      |-> IF acc.Balance >= 0 THEN nw.TotalAssets + acc.Balance
                          ELSE nw.TotalAssets,
     TotalLiabilities |-> IF acc.Balance >= 0 THEN nw.TotalLiabilities
                          ELSE nw.TotalLiabilities + Abs(acc.Balance),
     ByCurrency       |-> IF acc.Currency # ""
                          THEN MapPut(nw.ByCurrency, acc.Currency,
                                      MapGet(nw.ByCurrency, acc.Currency) + acc.Balance)
                          ELSE nw.ByCurrency,
     Accounts         |-> Append(nw.Accounts,
                              [ID |-> acc.ID, Name |-> acc.Name, Balance |-> acc.Balance,
                               Currency |-> acc.Currency, Type |-> acc.AccountType])]

RECURSIVE NetWorthLoop(_, _)
NetWorthLoop(nw, accs) ==
    IF accs = << >> THEN nw
    ELSE NetWorthLoop(AddToNetWorth(nw, Head(accs)), Tail(accs))

CalculateNetWorth(fault) ==
    LET got == GetAccounts(fault)
        nw  == NetWorthLoop([TotalAssets |-> 0, TotalLiabilities |-> 0,
                             ByCurrency |-> EmptyMap, Accounts |-> << >>], got.accounts)
    IN  IF got.err THEN [err |-> TRUE, text |-> "failed to get accounts"]
        ELSE [err      |-> FALSE,
              text     |-> "",
              netWorth |-> [TotalAssets      |-> nw.TotalAssets,
                            TotalLiabilities |-> nw.TotalLiabilities,
                            NetWorth         |-> nw.TotalAssets - nw.TotalLiabilities,
                            AccountCount     |-> Len(got.accounts),
                            ByCurrency       |-> nw.ByCurrency,
                            Accounts         |-> nw.Accounts]]

-----------------------------------------------------------------------------
(* Categories (GetCategories) and the statistics (GetFinancialStats).      *)

\* WHERE Z_ENT = 19 AND ZNAME2 IS NOT NULL ORDER BY ZNAME2.  The snapshots
\* list the category rows in the order of their names, which the query
\* keeps.  Read 1 is the query.
GetCategories(fault) ==
    LET named == SelectSeq(categories, LAMBDA c : c.ZNAME2.Valid)
    IN  IF fault = 1 THEN [err |-> TRUE, text |-> "failed to query categories"]
        ELSE [err |-> FALSE, text |-> "",
              categories |-> [i \in DOMAIN named |->
                                 [ID |-> named[i].Z_PK, Name |-> named[i].ZNAME2.V]]]

NoStats ==
    [TotalIncome |-> 0, TotalSpending |-> 0, LargestIncome |-> 0, LargestExpense |-> 0,
     FirstDate |-> EmptyStr, LastDate |-> EmptyStr, ByYear |-> EmptyMap]

\* byYear[year] with the count kept for the income rows only.
AddToYearIncomeCounted(byYear, year, amount, isIncome) ==
    LET old == IF year \in DOMAIN byYear THEN byYear[year]
               ELSE [Year |-> year, Income |-> 0, Spending |-> 0, NetSavings |-> 0,
                     TransactionCount |-> 0]
    IN  MapPut(byYear, year,
               [old EXCEPT !.Income = IF isIncome THEN @ + amount ELSE @,
                           !.Spending = IF isIncome THEN @ ELSE @ + amount,
                           !.TransactionCount = IF isIncome THEN @ + 1 ELSE @])

\* byYear[year] after a row of `amount`: created when missing.
AddToYear(byYear, year, amount, isIncome) ==
    LET old == IF year \in DOMAIN byYear THEN byYear[year]
               ELSE [Year |-> year, Income |-> 0, Spending |-> 0, NetSavings |-> 0,
                     TransactionCount |-> 0]
    IN  MapPut(byYear, year,
               [old EXCEPT !.Income = IF isIncome THEN @ + amount ELSE @,
                           !.Spending = IF isIncome THEN @ ELSE @ + amount,
                           !.TransactionCount = @ + 1])

\* The loop body with lastDate replaced only once it is set: it stays empty.
AddToStatsLastUnset(st, row, isIncome) ==
    [TotalIncome    |-> IF isIncome THEN st.TotalIncome + row.Amount ELSE st.TotalIncome,
     TotalSpending  |-> IF isIncome THEN st.TotalSpending ELSE st.TotalSpending + row.Amount,
     LargestIncome  |-> IF isIncome /\ row.Amount > st.LargestIncome THEN row.Amount
                        ELSE st.LargestIncome,
     LargestExpense |-> IF ~isIncome /\ row.Amount > st.LargestExpense THEN row.Amount
                        ELSE st.LargestExpense,
     FirstDate      |-> IF row.Date # EmptyStr
                           /\ (st.FirstDate = EmptyStr \/ StrLess(row.Date, st.FirstDate))
                        THEN row.Date ELSE st.FirstDate,
     LastDate       |-> IF row.Date # EmptyStr
                           /\ (st.LastDate # EmptyStr /\ StrLess(st.LastDate, row.Date))
                        THEN row.Date ELSE st.LastDate,
     ByYear         |-> IF row.Year # EmptyStr
                        THEN AddToYear(st.ByYear, row.Year, row.Amount, isIncome)
                        ELSE st.ByYear]

\* The body of the two loops over incomeData and spendingData.
AddToStats(st, row, isIncome) ==
    [TotalIncome    |-> IF isIncome THEN st.TotalIncome + row.Amount ELSE st.TotalIncome,
     TotalSpending  |-> IF isIncome THEN st.TotalSpending ELSE st.TotalSpending + row.Amount,
     LargestIncome  |-> IF isIncome /\ row.Amount > st.LargestIncome THEN row.Amount
                        ELSE st.LargestIncome,
     LargestExpense |-> IF ~isIncome /\ row.Amount > st.LargestExpense THEN row.Amount
                        ELSE st.LargestExpense,
     FirstDate      |-> IF row.Date # EmptyStr
                           /\ (st.FirstDate = EmptyStr \/ StrLess(row.Date, st.FirstDate))
                        THEN row.Date ELSE st.FirstDate,
     LastDate       |-> IF row.Date # EmptyStr
                           /\ (st.LastDate = EmptyStr \/ StrLess(st.LastDate, row.Date))
                        THEN row.Date ELSE st.LastDate,
     ByYear         |-> IF row.Year # EmptyStr
                        THEN AddToYear(st.ByYear, row.Year, row.Amount, isIncome)
                        ELSE st.ByYear]

RECURSIVE StatsLoop(_, _, _)
StatsLoop(st, rows, isIncome) ==
    IF rows = << >> THEN st
    ELSE StatsLoop(AddToStats(st, Head(rows), isIncome), Tail(rows), isIncome)

\* "%s to %s", "Since %s" or "".
DateRangeOf(firstDate, lastDate) ==
    IF firstDate # EmptyStr /\ lastDate # EmptyStr THEN <<"range", firstDate, lastDate>>
    ELSE IF firstDate # EmptyStr THEN <<"since", firstDate>>
    ELSE << >>

\* The FinancialStats built from the two views and the two counts.
FinancialStatsOf(st, incomeCount, spendingCount, accountCount, categoryCount) ==
    [TotalTransactions    |-> incomeCount + spendingCount,
     TotalIncome          |-> st.TotalIncome,
     TotalSpending        |-> st.TotalSpending,
     NetSavings           |-> st.TotalIncome - st.TotalSpending,
     AverageTransaction   |-> IF incomeCount + spendingCount > 0
                              THEN Frac(st.TotalIncome + st.TotalSpending,
                                        incomeCount + spendingCount)
                              ELSE Whole(0),
     LargestIncome        |-> st.LargestIncome,
     LargestExpense       |-> st.LargestExpense,
     AccountCount         |-> accountCount,
     CategoryCount        |-> categoryCount,
     FirstTransactionDate |-> st.FirstDate,
     LastTransactionDate  |-> st.LastDate,
     DateRange            |-> DateRangeOf(st.FirstDate, st.LastDate),
     IncomeTransactions   |-> incomeCount,
     ExpenseTransactions  |-> spendingCount,
     ByYear               |-> [y \in DOMAIN st.ByYear |->
                                  [st.ByYear[y] EXCEPT
                                      !.NetSavings = st.ByYear[y].Income
                                                        - st.ByYear[y].Spending]]]

\* Read 1 is the income query, read 2 the spending query, reads 3 to
\* 3 + n those of GetAccounts over n accounts, read 4 + n the category query.
GetFinancialStats(fault) ==
    IF fault = 1 THEN [err |-> TRUE, text |-> "failed to get income data"]
    ELSE IF fault = 2 THEN [err |-> TRUE, text |-> "failed to get spending data"]
    ELSE IF fault = 3 THEN [err |-> TRUE, text |-> "failed to get accounts"]
    ELSE IF fault = 4 + Len(NamedAccounts)
    THEN [err |-> TRUE, text |-> "failed to get categories"]
    ELSE [err |-> FALSE, text |-> "",
          stats |-> FinancialStatsOf(
                        StatsLoop(StatsLoop(NoStats, GetIncomeData(0), TRUE),
                                  GetSpendingData(0), FALSE),
                        Len(GetIncomeData(0)), Len(GetSpendingData(0)),
                        Len(GetAccounts(IF fault > 3 THEN fault - 2 ELSE 0).accounts),
                        Len(GetCategories(0).categories))]

-----------------------------------------------------------------------------
(* Tool handlers.  An argument the caller may omit is a nullable value;    *)
(* GetString / GetInt replace an omitted one by the default.  `fault` is   *)
(* the ordinal of the storage read of this call that fails (0: none).      *)

Default(arg, def) == IF arg.Valid THEN arg.V ELSE def

ErrorResult(text) == [IsError |-> TRUE, Text |-> text]

NoRequest == [op |-> "none"]
NoResponse == [IsError |-> FALSE]

\* The server is between two calls: the last result has been written out.
Idle == request = NoRequest

handleAnalyzeSpendingTrends(group_by, months, fault) ==
    LET groupBy == NormGroupBy(Default(group_by, "month"))
        m       == Default(months, 0)
        rows    == GetSpendingData(m)
    IN  /\ Idle
        /\ request' = [op |-> "analyze_spending_trends", group_by |-> group_by,
                       months |-> months, fault |-> fault]
        /\ IF fault = 1
           THEN response' = ErrorResult("failed to query spending data")
           ELSE \E order \in Orderings(TrendKeys(rows, groupBy)) :
                    response' = [IsError  |-> FALSE,
                                 trends   |-> TrendsOf(rows, groupBy, order),
                                 group_by |-> groupBy,
                                 months   |-> m]
        /\ UNCHANGED snapshot

handleAnalyzeIncomeTrends(group_by, months, fault) ==
    LET groupBy == NormGroupBy(Default(group_by, "month"))
        m       == Default(months, 0)
        rows    == GetIncomeData(m)
    IN  /\ Idle
        /\ request' = [op |-> "analyze_income_trends", group_by |-> group_by,
                       months |-> months, fault |-> fault]
        /\ IF fault = 1
           THEN response' = ErrorResult("failed to query income data")
           ELSE \E order \in Orderings(TrendKeys(rows, groupBy)) :
                    response' = [IsError  |-> FALSE,
                                 trends   |-> TrendsOf(rows, groupBy, order),
                                 group_by |-> groupBy,
                                 months   |-> m]
        /\ UNCHANGED snapshot

\* A handler that keeps failing once a call has failed.
handleListAccountsAfterFailure(fault) ==
    LET got == GetAccounts(fault)
    IN  /\ Idle
        /\ request' = [op |-> "list_accounts", fault |-> fault]
        /\ response' = IF failures > 0 THEN ErrorResult("sql: database is closed")
                       ELSE IF got.err THEN ErrorResult(got.text)
                       ELSE [IsError |-> FALSE, accounts |-> got.accounts]
        /\ UNCHANGED snapshot

handleListAccounts(fault) ==
    LET got == GetAccounts(fault)
    IN  /\ Idle
        /\ request' = [op |-> "list_accounts", fault |-> fault]
        /\ response' = IF got.err THEN ErrorResult(got.text)
                       ELSE [IsError |-> FALSE, accounts |-> got.accounts]
        /\ UNCHANGED snapshot

\* An argument that is present with a value RequireFloat cannot convert to a
\* number (V is not used).
NotANumber == [Valid |-> FALSE, V |-> 1]

\* The error of RequireFloat("account_id").
RequireFloatError(arg) ==
    IF arg = NotANumber THEN "argument is not a float64"
    ELSE "required argument not found"

\* RequireFloat("account_id") fails for an omitted or non-numeric argument,
\* before any read.
handleGetAccountBalance(account_id, fault) ==
    LET got == GetAccountBalance(account_id.V, fault)
    IN  /\ Idle
        /\ request' = [op |-> "get_account_balance", account_id |-> account_id,
                       fault |-> fault]
        /\ response' = IF ~account_id.Valid THEN ErrorResult(RequireFloatError(account_id))
                       ELSE IF got.err THEN ErrorResult(got.text)
                       ELSE [IsError |-> FALSE, account |-> got.account]
        /\ UNCHANGED snapshot

handleListCategories(fault) ==
    LET got == GetCategories(fault)
    IN  /\ Idle
        /\ request' = [op |-> "list_categories", fault |-> fault]
        /\ response' = IF got.err THEN ErrorResult(got.text)
                       ELSE [IsError |-> FALSE, categories |-> got.categories]
        /\ UNCHANGED snapshot

handleGetFinancialStats(fault) ==
    LET got == GetFinancialStats(fault)
    IN  /\ Idle
        /\ request' = [op |-> "get_financial_stats", fault |-> fault]
        /\ response' = IF got.err THEN ErrorResult(got.text)
                       ELSE [IsError |-> FALSE, stats |-> got.stats]
        /\ UNCHANGED snapshot

DefaultLimit == 50

\* GetFloat("account_id", 0), GetInt("limit", 50), and limit 0 replaced by 50.
handleListTransactions(account_id, limit, fault) ==
    LET lim == IF Default(limit, DefaultLimit) = 0 THEN DefaultLimit
               ELSE Default(limit, DefaultLimit)
        got == GetTransactions(Default(account_id, 0), lim, fault)
    IN  /\ Idle
        /\ request' = [op |-> "list_transactions", account_id |-> account_id,
                       limit |-> limit, fault |-> fault]
        /\ response' = IF got.err THEN ErrorResult(got.text)
                       ELSE [IsError |-> FALSE, transactions |-> got.transactions]
        /\ UNCHANGED snapshot

handleCalculateNetWorth(fault) ==
    LET got == CalculateNetWorth(fault)
    IN  /\ Idle
        /\ request' = [op |-> "calculate_net_worth", fault |-> fault]
        /\ response' = IF got.err THEN ErrorResult(got.text)
                       ELSE [IsError |-> FALSE, netWorth |-> got.netWorth]
        /\ UNCHANGED snapshot

handleGetSavingsRecommendations(months, fault) ==
    LET m == Default(months, 0)
    IN  /\ Idle
        /\ request' = [op |-> "get_savings_recommendations", months |-> months,
                       fault |-> fault]
        /\ \E order \in Orderings(SpendingCategoryKeys(m)) :
              LET got == AnalyzeSavings(m, fault, order)
              IN  response' = IF got.err THEN ErrorResult(got.text)
                              ELSE [IsError |-> FALSE, analysis |-> got.analysis]
        /\ UNCHANGED snapshot

\* ServeStdio writes the result of the call to the client and reads the
\* next request; nothing of the call stays behind in the server.
Respond ==
    /\ ~Idle
    /\ request' = NoRequest
    /\ response' = NoResponse
    /\ UNCHANGED snapshot

-----------------------------------------------------------------------------
(* Snapshots.  Z_PK is unique over ZSYNCOBJECT: accounts take 1.., the     *)
(* categories 11.., the transactions 21...                                 *)

CategoryPk(i) == 10 + i
TxnPk(i) == 20 + i

Jan2001 == 0
Feb2001 == 31 * SecondsPerDay
Jan2002 == 365 * SecondsPerDay

Food == "Food"
Transport == "Transport"

\* Two named categories.
TwoCategories ==
    <<[Z_PK |-> CategoryPk(1), ZNAME2 |-> Str(Food)],
      [Z_PK |-> CategoryPk(2), ZNAME2 |-> Str(Transport)]>>

\* Z_PK values are labels: a table holding the same rows under other keys
\* answers every query alike up to that renaming.  A snapshot family gives
\* each row as a tuple of integers and lists each collection of rows once,
\* its rows in lexicographic order.
RECURSIVE TupleLeq(_, _)
TupleLeq(a, b) ==
    IF a = << >> THEN TRUE
    ELSE IF Head(a) # Head(b) THEN Head(a) < Head(b)
    ELSE TupleLeq(Tail(a), Tail(b))

Ordered(shape) == \A i \in 1..(Len(shape) - 1) : TupleLeq(shape[i], shape[i + 1])

\* A transaction of the trend snapshots: its amount, its date, and the
\* category assigned to it (0: none).  The second year, and the date that
\* SQLite cannot render, come with one spending and one income amount.
TrendShapes ==
    ({-2, -1, 3} \X {Jan2001, Feb2001} \X {0, 1})
    \cup ({-1, 3} \X {Jan2002, FarDate} \X {0})

TxnRow(i, amount, date, account2, account) ==
    [Z_PK |-> TxnPk(i), ZAMOUNT1 |-> amount, ZDATE1 |-> date, ZDESC2 |-> NullStr,
     ZACCOUNT2 |-> account2, ZACCOUNT |-> account]

InitTrends ==
    /\ accounts = << >>
    /\ categories = TwoCategories
    /\ \E n \in 0..MaxTxns : \E shape \in [1..n -> TrendShapes] :
          /\ Ordered(shape)
          /\ transactions = [i \in 1..n |->
                TxnRow(i, Num(shape[i][1]), Num(shape[i][2]), Num(1), NullNum)]
          /\ assignments = SelectSeq(
                [i \in 1..n |-> [ZTRANSACTION |-> TxnPk(i), ZCATEGORY |-> CategoryPk(shape[i][3])]],
                LAMBDA ca : ca.ZCATEGORY # CategoryPk(0))
    /\ request = NoRequest
    /\ response = NoResponse
    /\ failures = 0
    /\ inflight = << >>

GroupByArgs == {NullStr, Str("month"), Str("year"), Str("week")}

MonthsArgs == {NullNum, Num(-1), Num(0), Num(2), Num(19)}

NextTrends ==
    \/ /\ \E group_by \in GroupByArgs, months \in {NullNum, Num(1)}, fault \in 0..1 :
             handleAnalyzeSpendingTrends(group_by, months, fault)
       /\ UNCHANGED aux
    \/ /\ \E group_by \in GroupByArgs, months \in {NullNum, Num(1)}, fault \in 0..1 :
             handleAnalyzeIncomeTrends(group_by, months, fault)
       /\ UNCHANGED aux
    \/ /\ \E fault \in 0..4 : handleGetFinancialStats(fault)
       /\ UNCHANGED aux
    \/ /\ Respond
       /\ UNCHANGED aux

SpecTrends == InitTrends /\ [][NextTrends]_vars

-----------------------------------------------------------------------------
(* Snapshots for the account balances: two accounts, and transactions that *)
(* differ in amount and in the two account-link columns.                   *)

AccountPk(i) == i

\* Account i is named by one letter, later rows first in ORDER BY ZNAME.
AccountName(i) == <<91 - i>>

AccountRow(i, opening, stored, currency) ==
    [Z_PK |-> AccountPk(i), ZNAME |-> Str(AccountName(i)), ZBALLANCE |-> stored,
     ZOPENINGBALANCE |-> opening, ZCURRENCYNAME |-> currency, ZTYPE |-> NullStr]

BalanceAmounts == <<NullNum, Num(-3), Num(5)>>
LinkValues == <<NullNum, Num(AccountPk(1)), Num(AccountPk(2))>>

\* A transaction of the balance snapshots: the positions of its ZAMOUNT1,
\* ZACCOUNT2 and ZACCOUNT in the lists above.
BalanceShapes == (DOMAIN BalanceAmounts) \X (DOMAIN LinkValues) \X (1..2)

\* The first account's opening and stored balance.
OpeningShapes == {<<NullNum, NullNum>>, <<NullNum, Num(99)>>, <<Num(10), Num(99)>>}

InitBalance ==
    /\ \E o \in OpeningShapes :
          accounts = <<AccountRow(1, o[1], o[2], Str("USD")),
                       AccountRow(2, Num(20), NullNum, NullStr)>>
    /\ categories = << >>
    /\ assignments = << >>
    /\ \E n \in 0..MaxTxns : \E shape \in [1..n -> BalanceShapes] :
          /\ Ordered(shape)
          /\ transactions = [i \in 1..n |->
                TxnRow(i, BalanceAmounts[shape[i][1]], Num(Jan2001),
                       LinkValues[shape[i][2]], LinkValues[shape[i][3]])]
    /\ request = NoRequest
    /\ response = NoResponse
    /\ failures = 0
    /\ inflight = << >>

NextBalance ==
    \/ /\ \E fault \in 0..(1 + Len(NamedAccounts)) : handleListAccounts(fault)
       /\ UNCHANGED aux
    \/ /\ \E id \in 1..3, fault \in 0..2 : handleGetAccountBalance(Num(id), fault)
       /\ UNCHANGED aux
    \/ /\ handleGetAccountBalance(NullNum, 0)
       /\ UNCHANGED aux
    \/ /\ Respond
       /\ UNCHANGED aux

SpecBalance == InitBalance /\ [][NextBalance]_vars

-----------------------------------------------------------------------------
(* Snapshots for the net worth: up to MaxAccounts accounts that differ in  *)
(* opening balance and currency, and at most one transaction.              *)

NetWorthOpenings == <<NullNum, Num(-200), Num(0), Num(500)>>
NetWorthCurrencies == <<NullStr, Str(""), Str("USD"), Str("EUR")>>

\* An account of the net worth snapshots: the positions of its opening
\* balance and its currency in the lists above.
NetWorthShapes == (DOMAIN NetWorthOpenings) \X (DOMAIN NetWorthCurrencies)

InitNetWorth ==
    /\ \E n \in 0..MaxAccounts : \E shape \in [1..n -> NetWorthShapes] :
          /\ Ordered(shape)
          /\ accounts = [i \in 1..n |->
                AccountRow(i, NetWorthOpenings[shape[i][1]], Num(99),
                           NetWorthCurrencies[shape[i][2]])]
    /\ categories = << >>
    /\ assignments = << >>
    /\ transactions \in {<< >>, <<TxnRow(1, Num(-700), Num(Jan2001), Num(AccountPk(1)), NullNum)>>}
    /\ request = NoRequest
    /\ response = NoResponse
    /\ failures = 0
    /\ inflight = << >>

NextNetWorth ==
    \/ /\ \E fault \in 0..(1 + Len(NamedAccounts)) : handleCalculateNetWorth(fault)
       /\ UNCHANGED aux
    \/ /\ \E fault \in 0..(1 + Len(NamedAccounts)) : handleListAccounts(fault)
       /\ UNCHANGED aux
    \/ /\ Respond
       /\ UNCHANGED aux

SpecNetWorth == InitNetWorth /\ [][NextNetWorth]_vars

-----------------------------------------------------------------------------
(* Snapshots for the savings analysis: transactions of one date that       *)
(* differ in amount and category, and uncategorized transactions that      *)
(* differ in date.                                                         *)

SavingsShapes ==
    ({-500, -1200} \X {Jan2002} \X {0, 1, 2})
    \cup ({-400, -450} \X {Jan2002} \X {0, 1})
    \cup ({1000, -500} \X {Jan2001, Feb2001, Jan2002} \X {0})

InitSavings ==
    /\ accounts = << >>
    /\ categories = TwoCategories
    /\ \E n \in 0..MaxTxns : \E shape \in [1..n -> SavingsShapes] :
          /\ Ordered(shape)
          /\ transactions = [i \in 1..n |->
                TxnRow(i, Num(shape[i][1]), Num(shape[i][2]), Num(1), NullNum)]
          /\ assignments = SelectSeq(
                [i \in 1..n |-> [ZTRANSACTION |-> TxnPk(i), ZCATEGORY |-> CategoryPk(shape[i][3])]],
                LAMBDA ca : ca.ZCATEGORY # CategoryPk(0))
    /\ request = NoRequest
    /\ response = NoResponse
    /\ failures = 0
    /\ inflight = << >>

NextSavings ==
    \/ /\ \E months \in MonthsArgs, fault \in 0..2 :
             handleGetSavingsRecommendations(months, fault)
       /\ UNCHANGED aux
    \/ /\ Respond
       /\ UNCHANGED aux

SpecSavings == InitSavings /\ [][NextSavings]_vars

-----------------------------------------------------------------------------
(* Snapshots for the lookback window: uncategorized transactions with a    *)
(* spending, an income, a zero or no amount, and with no date or a date at *)
(* 0, one lookback month later, or one second after that.                  *)

WindowAmounts == <<NullNum, Num(0), Num(-2), Num(3)>>

WindowDates == <<NullNum, Num(Jan2001), Num(SecondsPerMonth), Num(SecondsPerMonth + 1)>>

WindowShapes == (DOMAIN WindowAmounts) \X (DOMAIN WindowDates)

InitWindow ==
    /\ accounts = << >>
    /\ categories = TwoCategories
    /\ assignments = << >>
    /\ \E n \in 0..MaxTxns : \E shape \in [1..n -> WindowShapes] :
          /\ Ordered(shape)
          /\ transactions = [i \in 1..n |->
                TxnRow(i, WindowAmounts[shape[i][1]], WindowDates[shape[i][2]],
                       Num(1), NullNum)]
    /\ request = NoRequest
    /\ response = NoResponse
    /\ failures = 0
    /\ inflight = << >>

WindowMonthsArgs == {NullNum, Num(-1), Num(0), Num(1), Num(2)}

NextWindow ==
    \/ /\ \E months \in WindowMonthsArgs, fault \in 0..1 :
             handleAnalyzeSpendingTrends(NullStr, months, fault)
       /\ UNCHANGED aux
    \/ /\ \E months \in WindowMonthsArgs, fault \in 0..1 :
             handleAnalyzeIncomeTrends(NullStr, months, fault)
       /\ UNCHANGED aux
    \/ /\ Respond
       /\ UNCHANGED aux

SpecWindow == InitWindow /\ [][NextWindow]_vars

-----------------------------------------------------------------------------
(* Snapshots for the transaction list: two accounts, and transactions of   *)
(* distinct dates that differ in amount and in the two account-link        *)
(* columns.                                                                *)

InitTransactions ==
    /\ accounts = <<AccountRow(1, Num(10), NullNum, Str("USD")),
                    AccountRow(2, Num(20), NullNum, NullStr)>>
    /\ categories = << >>
    /\ assignments = << >>
    /\ \E n \in 0..MaxTxns : \E shape \in [1..n -> BalanceShapes] :
          /\ Ordered(shape)
          /\ transactions = [i \in 1..n |->
                TxnRow(i, BalanceAmounts[shape[i][1]], Num(i * SecondsPerDay),
                       LinkValues[shape[i][2]], LinkValues[shape[i][3]])]
    /\ request = NoRequest
    /\ response = NoResponse
    /\ failures = 0
    /\ inflight = << >>

AccountIdArgs == {NullNum, Num(-1), Num(0), Num(1), Num(3)}

LimitArgs == {NullNum, Num(0), Num(1)}

NextTransactions ==
    \/ /\ \E account_id \in AccountIdArgs, limit \in LimitArgs, fault \in 0..1 :
             handleListTransactions(account_id, limit, fault)
       /\ UNCHANGED aux
    \/ /\ Respond
       /\ UNCHANGED aux

SpecTransactions == InitTransactions /\ [][NextTransactions]_vars

-----------------------------------------------------------------------------
(* The whole server, one call at a time: two accounts, two categories, and *)
(* transactions that differ in amount, date, category and account link.    *)
(* `failures` counts the calls that returned an error result, up to        *)
(* MaxFailures; no handler reads it.                                       *)

\* A transaction of the server snapshots: its amount, its date, the number
\* of its category (0: none) and the position of its ZACCOUNT2 in LinkValues.
ServerShapes ==
    {<<-500, Jan2002, 1, 2>>, <<-500, Jan2002, 2, 2>>, <<-500, Jan2001, 0, 1>>,
     <<1000, Jan2001, 0, 2>>, <<1000, Jan2002, 0, 3>>, <<-1200, Feb2001, 1, 2>>}

InitServer ==
    /\ accounts = <<AccountRow(1, Num(10), Num(99), Str("USD")),
                    AccountRow(2, NullNum, Num(99), NullStr)>>
    /\ categories = TwoCategories
    /\ \E n \in 0..MaxTxns : \E shape \in [1..n -> ServerShapes] :
          /\ Ordered(shape)
          /\ transactions = [i \in 1..n |->
                TxnRow(i, Num(shape[i][1]), Num(shape[i][2]),
                       LinkValues[shape[i][4]], NullNum)]
          /\ assignments = SelectSeq(
                [i \in 1..n |-> [ZTRANSACTION |-> TxnPk(i), ZCATEGORY |-> CategoryPk(shape[i][3])]],
                LAMBDA ca : ca.ZCATEGORY # CategoryPk(0))
    /\ request = NoRequest
    /\ response = NoResponse
    /\ failures = 0
    /\ inflight = << >>

\* The history of the call just served.
CountFailure ==
    /\ failures' = IF response'.IsError /\ failures < MaxFailures
                   THEN failures + 1 ELSE failures
    /\ UNCHANGED inflight

NextServer ==
    \/ /\ \E fault \in 0..(1 + Len(NamedAccounts)) : handleListAccounts(fault)
       /\ CountFailure
    \/ /\ \E account_id \in {NullNum, NotANumber, Num(1), Num(3)}, fault \in 0..2 :
             handleGetAccountBalance(account_id, fault)
       /\ CountFailure
    \/ /\ \E account_id \in {NullNum, Num(1)}, fault \in 0..1 :
             handleListTransactions(account_id, NullNum, fault)
       /\ CountFailure
    \/ /\ \E fault \in 0..1 : handleListCategories(fault)
       /\ CountFailure
    \/ /\ \E fault \in 0..(4 + Len(NamedAccounts)) : handleGetFinancialStats(fault)
       /\ CountFailure
    \/ /\ \E fault \in 0..(1 + Len(NamedAccounts)) : handleCalculateNetWorth(fault)
       /\ CountFailure
    \/ /\ \E months \in {NullNum, Num(1)}, fault \in 0..1 :
             handleAnalyzeSpendingTrends(NullStr, months, fault)
       /\ CountFailure
    \/ /\ \E months \in {NullNum, Num(1)}, fault \in 0..1 :
             handleAnalyzeIncomeTrends(NullStr, months, fault)
       /\ CountFailure
    \/ /\ \E months \in {NullNum, Num(1)}, fault \in 0..2 :
             handleGetSavingsRecommendations(months, fault)
       /\ CountFailure
    \/ /\ Respond
       /\ UNCHANGED aux

SpecServer == InitServer /\ [][NextServer]_vars

-----------------------------------------------------------------------------
(* Concurrent calls.  Each call in flight runs in a goroutine of its own   *)
(* and issues its storage reads one at a time, so the reads of different   *)
(* calls interleave.  What a call has read so far is local to it: the rows *)
(* of its first query, and the accumulator of the values built from them.  *)
(* Three operations are served: list_accounts (one read and one more for   *)
(* each account), get_account_balance (argument check, then two reads) and *)
(* get_savings_recommendations (two reads).  No read fails here.           *)

\* A goroutine that serves no call.
Free ==
    [op |-> "none", account_id |-> NullNum, months |-> NullNum, pc |-> "free",
     reads |-> 0, rows |-> << >>, acc |-> << >>, interleaved |-> FALSE,
     result |-> NoResponse]

\* A handler that queries before it looks at its arguments.
FirstStepQueryFirst(op, account_id) == "query"

\* Where a call starts: get_account_balance returns at once when
\* RequireFloat("account_id") fails.
FirstStep(op, account_id) ==
    IF op = "get_account_balance" /\ ~account_id.Valid THEN "return" ELSE "query"

\* An accumulator declared at package level, shared by all calls.
AccumulatorShared(c) == inflight[1].acc

\* The accumulator of call c, a local variable of the database function.
Accumulator(c) == inflight[c].acc

\* Another call is between two of its reads.
OthersReading(c) == \E d \in DOMAIN inflight \ {c} : inflight[d].pc = "next"

\* The call after its next storage read.
ReadStep(c) ==
    LET call == inflight[c]
        read == [call EXCEPT !.reads = @ + 1,
                             !.interleaved = @ \/ OthersReading(c)]
        m    == EffectiveMonths(Default(call.months, 0))
    IN  CASE call.op = "list_accounts" /\ call.pc = "query" ->
                [read EXCEPT !.rows = NamedAccounts,
                             !.pc = IF NamedAccounts = << >> THEN "return" ELSE "next"]
          [] call.op = "list_accounts" /\ call.pc = "next" ->
                [read EXCEPT !.acc = Append(Accumulator(c),
                                            AccountOf(call.rows[call.reads], FALSE)),
                             !.pc = IF call.reads = Len(call.rows) THEN "return"
                                    ELSE "next"]
          [] call.op = "get_account_balance" /\ call.pc = "query" ->
                LET found == SelectSeq(accounts,
                                       LAMBDA row : row.Z_PK = call.account_id.V)
                IN  [read EXCEPT !.rows = found,
                                 !.pc = IF found = << >> THEN "return" ELSE "next"]
          [] call.op = "get_account_balance" /\ call.pc = "next" ->
                [read EXCEPT !.acc = Append(Accumulator(c),
                                            AccountOf(call.rows[1], FALSE)),
                             !.pc = "return"]
          [] call.op = "get_savings_recommendations" /\ call.pc = "query" ->
                [read EXCEPT !.rows = GetIncomeData(m), !.pc = "next"]
          [] call.op = "get_savings_recommendations" /\ call.pc = "next" ->
                [read EXCEPT !.acc = Accumulator(c) \o GetSpendingData(m),
                             !.pc = "return"]

\* The results the handler can build from what call c has read.
ResultsOf(call) ==
    CASE call.op = "list_accounts" -> {[IsError |-> FALSE, accounts |-> call.acc]}
      [] call.op = "get_account_balance" ->
            IF ~call.account_id.Valid
            THEN {ErrorResult(RequireFloatError(call.account_id))}
            ELSE IF call.rows = << >>
            THEN {ErrorResult(NotFoundText(call.account_id.V))}
            ELSE {[IsError |-> FALSE, account |-> call.acc[1]]}
      [] call.op = "get_savings_recommendations" ->
            {[IsError  |-> FALSE,
              analysis |-> SavingsAnalysisOf(
                               EffectiveMonths(Default(call.months, 0)),
                               TotalAmount(call.rows), TotalAmount(call.acc),
                               SpendingByCategory(EmptyMap, call.acc), order)] :
                order \in Orderings(DOMAIN SpendingByCategory(EmptyMap, call.acc))}

\* A request arrives and a goroutine starts to serve it.
Call(c, op, account_id, months) ==
    /\ inflight[c] = Free
    /\ inflight' = [inflight EXCEPT ![c] =
                       [Free EXCEPT !.op = op, !.account_id = account_id,
                                    !.months = months,
                                    !.pc = FirstStep(op, account_id)]]
    /\ UNCHANGED <<snapshot, request, response, failures>>

\* Call c issues its next storage read.
Read(c) ==
    /\ inflight[c].pc \in {"query", "next"}
    /\ inflight' = [inflight EXCEPT ![c] = ReadStep(c)]
    /\ UNCHANGED <<snapshot, request, response, failures>>

\* The handler of call c returns its result.
Return(c) ==
    /\ inflight[c].pc = "return"
    /\ \E result \in ResultsOf(inflight[c]) :
          inflight' = [inflight EXCEPT ![c].result = result, ![c].pc = "done"]
    /\ UNCHANGED <<snapshot, request, response, failures>>

\* The result of call c is written to the client and its goroutine ends.
Reply(c) ==
    /\ inflight[c].pc = "done"
    /\ inflight' = [inflight EXCEPT ![c] = Free]
    /\ UNCHANGED <<snapshot, request, response, failures>>

\* The ledgers of the concurrent calls: none, two or three of these
\* transactions, the first two in different categories with equal amounts.
ConcurrentTxns ==
    <<TxnRow(1, Num(-500), Num(Jan2002), Num(AccountPk(1)), NullNum),
      TxnRow(2, Num(-500), Num(Jan2002), Num(AccountPk(1)), NullNum),
      TxnRow(3, Num(1000), Num(Jan2002), Num(AccountPk(2)), NullNum)>>

InitConcurrent ==
    /\ accounts = <<AccountRow(1, Num(10), Num(99), Str("USD")),
                    AccountRow(2, NullNum, Num(99), NullStr)>>
    /\ categories = TwoCategories
    /\ \E n \in {0, 2, 3} :
          /\ transactions = SubSeq(ConcurrentTxns, 1, n)
          /\ assignments = SubSeq(<<[ZTRANSACTION |-> TxnPk(1), ZCATEGORY |-> CategoryPk(1)],
                                    [ZTRANSACTION |-> TxnPk(2), ZCATEGORY |-> CategoryPk(2)]>>,
                                  1, IF n > 2 THEN 2 ELSE n)
    /\ request = NoRequest
    /\ response = NoResponse
    /\ failures = 0
    /\ inflight = [c \in 1..MaxCalls |-> Free]

NextConcurrent ==
    \/ \E c \in 1..MaxCalls : Call(c, "list_accounts", NullNum, NullNum)
    \/ \E c \in 1..MaxCalls, account_id \in {NullNum, NotANumber, Num(1), Num(3)} :
          Call(c, "get_account_balance", account_id, NullNum)
    \/ \E c \in 1..MaxCalls : Call(c, "get_savings_recommendations", NullNum, NullNum)
    \/ \E c \in 1..MaxCalls : Read(c)
    \/ \E c \in 1..MaxCalls : Return(c)
    \/ \E c \in 1..MaxCalls : Reply(c)

SpecConcurrent == InitConcurrent /\ [][NextConcurrent]_vars

-----------------------------------------------------------------------------
(* Ledgers with many categories: six categories, the first n of them with  *)
(* one spending transaction each, an income or none, and for the first     *)
(* transaction a second category assignment or none.  All transactions     *)
(* carry one date.                                                         *)

SixCategories ==
    <<[Z_PK |-> CategoryPk(1), ZNAME2 |-> Str(Food)],
      [Z_PK |-> CategoryPk(2), ZNAME2 |-> Str(Transport)],
      [Z_PK |-> CategoryPk(3), ZNAME2 |-> Str("Rent")],
      [Z_PK |-> CategoryPk(4), ZNAME2 |-> Str("Travel")],
      [Z_PK |-> CategoryPk(5), ZNAME2 |-> Str("Health")],
      [Z_PK |-> CategoryPk(6), ZNAME2 |-> Str("Gifts")]>>

\* The magnitudes that the spending transaction of each category can have.
CategoryAmounts == <<{300, 400}, {300}, {300}, {100}, {100}, {50, 100}>>

InitCategories ==
    /\ accounts = << >>
    /\ categories = SixCategories
    /\ \E n \in 0..Len(SixCategories), income \in {0, 1000}, second \in {0, 2} :
       \E spent \in [1..n -> {50, 100, 300, 400}] :
          /\ \A k \in 1..n : spent[k] \in CategoryAmounts[k]
          /\ second > 0 => n >= 2
          /\ transactions =
                [k \in 1..n |-> TxnRow(k, Num(0 - spent[k]), Num(Jan2002), Num(1), NullNum)]
                \o (IF income > 0
                    THEN <<TxnRow(n + 1, Num(income), Num(Jan2002), Num(1), NullNum)>>
                    ELSE << >>)
          /\ assignments =
                [k \in 1..n |-> [ZTRANSACTION |-> TxnPk(k), ZCATEGORY |-> CategoryPk(k)]]
                \o (IF second > 0
                    THEN <<[ZTRANSACTION |-> TxnPk(1), ZCATEGORY |-> CategoryPk(second)]>>
                    ELSE << >>)
    /\ request = NoRequest
    /\ response = NoResponse
    /\ failures = 0
    /\ inflight = << >>

NextCategories ==
    \/ /\ handleGetSavingsRecommendations(NullNum, 0)
       /\ UNCHANGED aux
    \/ /\ \E fault \in 0..1 : handleAnalyzeSpendingTrends(NullStr, NullNum, fault)
       /\ UNCHANGED aux
    \/ /\ \E fault \in 0..1 : handleAnalyzeIncomeTrends(NullStr, NullNum, fault)
       /\ UNCHANGED aux
    \/ /\ \E fault \in 0..4 : handleGetFinancialStats(fault)
       /\ UNCHANGED aux
    \/ /\ Respond
       /\ UNCHANGED aux

SpecCategories == InitCategories /\ [][NextCategories]_vars

-----------------------------------------------------------------------------
(* Properties of the trend analyses.                                       *)

RECURSIVE SumOver(_, _)
SumOver(m, keys) ==
    IF keys = {} THEN 0
    ELSE LET k == CHOOSE x \in keys : TRUE IN m[k] + SumOver(m, keys \ {k})

SumMap(m) == SumOver(m, DOMAIN m)

Range(s) == {s[i] : i \in DOMAIN s}

TrendCall ==
    /\ request.op \in {"analyze_spending_trends", "analyze_income_trends"}
    /\ ~response.IsError

\* The rows the served trend call read, and the period field it grouped on.
TrendInput ==
    IF request.op = "analyze_spending_trends"
    THEN GetSpendingData(Default(request.months, 0))
    ELSE GetIncomeData(Default(request.months, 0))

TrendGroupBy == NormGroupBy(Default(request.group_by, "month"))

TrendInputWithPeriod ==
    SelectSeq(TrendInput, LAMBDA row : PeriodOf(row, TrendGroupBy) # EmptyStr)

PeriodOrdering ==
    TrendCall =>
        LET keys == {PeriodOf(row, TrendGroupBy) : row \in Range(TrendInput)} \ {EmptyStr}
        IN  /\ Len(response.trends) = Cardinality(keys)
            /\ {response.trends[i].Period : i \in DOMAIN response.trends} = keys
            /\ \A i, j \in DOMAIN response.trends :
                  i < j => StrLess(response.trends[i].Period, response.trends[j].Period)

\* A trend call that emitted three periods, two of them in the same year.
PeriodOrderingWitness ==
    /\ TrendCall
    /\ Len(response.trends) = 3
    /\ SubSeq(response.trends[1].Period, 1, 4) = SubSeq(response.trends[2].Period, 1, 4)

-----------------------------------------------------------------------------
(* Properties of the account balances and of the net worth.                *)

\* The opening balance of account A (0 when missing) plus the amounts of
\* the transactions that carry an amount and name A in the first or the
\* second link column, each transaction taken once.
ExpectedBalance(A) ==
    LET row    == CHOOSE r \in Range(accounts) : r.Z_PK = A
        linked == {i \in DOMAIN transactions :
                      /\ transactions[i].ZAMOUNT1.Valid
                      /\ \/ transactions[i].ZACCOUNT2 = Num(A)
                         \/ transactions[i].ZACCOUNT = Num(A)}
    IN  (IF row.ZOPENINGBALANCE.Valid THEN row.ZOPENINGBALANCE.V ELSE 0)
        + SumOver([i \in linked |-> transactions[i].ZAMOUNT1.V], linked)

NetWorthCall == request.op = "calculate_net_worth" /\ ~response.IsError

\* The accounts the served call retrieved.
RetrievedAccounts == GetAccounts(request.fault).accounts

SumWhere(accs, Test(_), Value(_)) ==
    LET picked == {i \in DOMAIN accs : Test(accs[i])}
    IN  SumOver([i \in picked |-> Value(accs[i])], picked)

\* C8: net_worth = total_assets - total_liabilities, both totals are >= 0,
\* total_assets is the sum of the balances >= 0 and total_liabilities the
\* sum of the absolute values of the negative balances; with no account
\* all three are 0 and account_count is 0.
NetWorthIdentity ==
    NetWorthCall =>
        LET nw == response.netWorth
        IN  /\ nw.NetWorth = nw.TotalAssets - nw.TotalLiabilities
            /\ nw.TotalAssets >= 0
            /\ nw.TotalLiabilities >= 0
            /\ nw.TotalAssets = SumWhere(RetrievedAccounts, LAMBDA a : a.Balance >= 0,
                                         LAMBDA a : a.Balance)
            /\ nw.TotalLiabilities = SumWhere(RetrievedAccounts, LAMBDA a : a.Balance < 0,
                                              LAMBDA a : 0 - a.Balance)
            /\ RetrievedAccounts = << >> =>
                  /\ nw.TotalAssets = 0 /\ nw.TotalLiabilities = 0
                  /\ nw.NetWorth = 0 /\ nw.AccountCount = 0

\* A net worth over accounts of both signs.
NetWorthIdentityWitness ==
    /\ NetWorthCall
    /\ response.netWorth.TotalAssets > 0
    /\ response.netWorth.TotalLiabilities > 0
    /\ response.netWorth.AccountCount = 3

\* The scenario of C9: balances +500, -200 and 0 with currencies USD, USD
\* and none.
NetWorthScenario ==
    /\ Len(RetrievedAccounts) = 3
    /\ {<<a.Balance, a.Currency>> : a \in Range(RetrievedAccounts)}
          = {<<500, "USD">>, <<-200, "USD">>, <<0, "">>}

\* C9: an account with an empty currency code creates no key in
\* by_currency but is counted in the totals, in account_count and in the
\* accounts list; by_currency[c] is the signed sum of the balances of the
\* accounts with currency c; the scenario gives 500, 200, 300, {USD: 300}.
CurrencyBreakdown ==
    NetWorthCall =>
        LET nw == response.netWorth
        IN  /\ DOMAIN nw.ByCurrency = {a.Currency : a \in Range(RetrievedAccounts)} \ {""}
            /\ \A c \in DOMAIN nw.ByCurrency :
                  nw.ByCurrency[c] = SumWhere(RetrievedAccounts, LAMBDA a : a.Currency = c,
                                              LAMBDA a : a.Balance)
            /\ nw.NetWorth = SumWhere(RetrievedAccounts, LAMBDA a : TRUE, LAMBDA a : a.Balance)
            /\ nw.AccountCount = Len(RetrievedAccounts)
            /\ Len(nw.Accounts) = Len(RetrievedAccounts)
            /\ \A i \in DOMAIN nw.Accounts :
                  /\ nw.Accounts[i].ID = RetrievedAccounts[i].ID
                  /\ nw.Accounts[i].Balance = RetrievedAccounts[i].Balance
                  /\ nw.Accounts[i].Currency = RetrievedAccounts[i].Currency
            /\ NetWorthScenario =>
                  /\ nw.TotalAssets = 500 /\ nw.TotalLiabilities = 200
                  /\ nw.NetWorth = 300
                  /\ nw.ByCurrency = [c \in {"USD"} |-> 300]

\* The scenario served, every read succeeding.
CurrencyBreakdownWitness ==
    /\ NetWorthCall
    /\ request.fault = 0
    /\ NetWorthScenario

-----------------------------------------------------------------------------
(* Properties of the savings analysis.                                     *)

SavingsCall == request.op = "get_savings_recommendations" /\ ~response.IsError

SavingsMonthsArg == Default(request.months, 0)

\* C5: given the same snapshot and the same months argument, every run of
\* AnalyzeSavings returns the recommendations and the top spending
\* categories that the served call returned, in the same order.
RecommendationDeterminism ==
    SavingsCall =>
        \A order \in Orderings(SpendingCategoryKeys(SavingsMonthsArg)) :
            LET again == AnalyzeSavings(SavingsMonthsArg, request.fault, order).analysis
            IN  /\ again.Recommendations = response.analysis.Recommendations
                /\ again.TopSpendingCategories = response.analysis.TopSpendingCategories

TierTitles ==
    {"Negative Savings Rate", "Low Savings Rate", "Moderate Savings Rate",
     "Excellent Savings Rate"}

\* (totalIncome - totalSpending) / totalIncome * 100, and 0 without income.
ExpectedRate(income, spending) ==
    IF income > 0 THEN [n |-> (income - spending) * 100, d |-> income]
    ELSE [n |-> 0, d |-> 1]

\* The tier that the claim gives for a rate, and its impact.
ExpectedTier(income, spending) ==
    LET rate == ExpectedRate(income, spending)
        gap  == [n |-> 20 * income - 100 * (income - spending), d |-> 100]
    IN  IF rate.n < 0
        THEN [Type |-> "warning", Title |-> "Negative Savings Rate", Priority |-> "high",
              Impact |-> [n |-> Abs(spending - income), d |-> 1]]
        ELSE IF rate.n < 10 * rate.d
        THEN [Type |-> "warning", Title |-> "Low Savings Rate", Priority |-> "high",
              Impact |-> gap]
        ELSE IF rate.n < 20 * rate.d
        THEN [Type |-> "suggestion", Title |-> "Moderate Savings Rate",
              Priority |-> "medium", Impact |-> gap]
        ELSE [Type |-> "positive", Title |-> "Excellent Savings Rate", Priority |-> "low",
              Impact |-> [n |-> 0, d |-> 1]]

\* C6: every savings analysis carries exactly one of the four savings-rate
\* tier recommendations, the one its rate selects, with the type, priority
\* and impact of that tier; income 1000 and spending 1200 give rate -20 and
\* one 'Negative Savings Rate' recommendation of impact 200.
SavingsRateTiers ==
    SavingsCall =>
        LET a        == response.analysis
            recs     == a.Recommendations
            tiers    == {i \in DOMAIN recs : recs[i].Title \in TierTitles}
            expected == ExpectedTier(a.TotalIncome, a.TotalSpending)
        IN  /\ Cardinality(tiers) = 1
            /\ \A i \in tiers :
                  /\ recs[i].Title = expected.Title
                  /\ recs[i].Type = expected.Type
                  /\ recs[i].Priority = expected.Priority
                  /\ FracEq(recs[i].Impact, expected.Impact)
            /\ (a.TotalIncome = 1000 /\ a.TotalSpending = 1200) =>
                  /\ FracEq(a.SavingsRate, Whole(-20))
                  /\ \A i \in tiers :
                        /\ recs[i].Title = "Negative Savings Rate"
                        /\ recs[i].Priority = "high"
                        /\ FracEq(recs[i].Impact, Whole(200))

\* The scenario of C6 served: income 1000, spending 1200.
SavingsRateTiersWitness ==
    /\ SavingsCall
    /\ response.analysis.TotalIncome = 1000
    /\ response.analysis.TotalSpending = 1200

\* The incomes a served analysis is compared with.
ComparedIncomes == {250 * k : k \in 1..12}

\* The rate of the served analysis is the quotient the claim gives.
SavingsRateFormula ==
    LET a == response.analysis
    IN  /\ a.NetSavings = a.TotalIncome - a.TotalSpending
        /\ a.TotalIncome > 0 =>
              /\ a.SavingsRate.d > 0
              /\ a.SavingsRate.n * a.TotalIncome
                    = (a.TotalIncome - a.TotalSpending) * 100 * a.SavingsRate.d
        /\ a.TotalIncome <= 0 => a.SavingsRate.n = 0

-----------------------------------------------------------------------------
(* Properties of the income and spending views.                            *)

\* The sign that the served trend call selects.
TrendSign == IF request.op = "analyze_spending_trends" THEN -1 ELSE 1

Dated(i) == transactions[i].ZDATE1.Valid

Signed(i, sign) ==
    /\ transactions[i].ZAMOUNT1.Valid
    /\ transactions[i].ZAMOUNT1.V * sign > 0

\* The greatest timestamp among the dated transactions, whatever their
\* amount; -1 when no transaction is dated.
GreatestTimestamp ==
    LET dated == {i \in DOMAIN transactions : Dated(i)}
    IN  IF dated = {} THEN -1
        ELSE CHOOSE t \in {transactions[i].ZDATE1.V : i \in dated} :
                 \A i \in dated : transactions[i].ZDATE1.V <= t

\* The view rows that a set of transactions gives, one per transaction: the
\* magnitude of the amount and the rendered date.
RowsOfTxns(txns) == [i \in txns |-> <<Abs(transactions[i].ZAMOUNT1.V),
                                      DateOf(transactions[i].ZDATE1.V)>>]

CountOf(f, x) == Cardinality({i \in DOMAIN f : f[i] = x})

\* The view holds one row per transaction of `txns`, with its magnitude and
\* date, and no other row.
ViewIs(view, txns) ==
    LET got  == [i \in DOMAIN view |-> <<view[i].Amount, view[i].Date>>]
        want == RowsOfTxns(txns)
    IN  /\ Len(view) = Cardinality(txns)
        /\ \A i \in txns : CountOf(got, want[i]) = CountOf(want, want[i])

\* The trend records of the served call account for exactly `txns`.
TrendsCover(txns) ==
    /\ SumSeq([i \in DOMAIN response.trends |-> response.trends[i].TransactionCount])
          = Cardinality(txns)
    /\ SumSeq([i \in DOMAIN response.trends |-> response.trends[i].Total])
          = SumOver([i \in txns |-> Abs(transactions[i].ZAMOUNT1.V)], txns)

InLookback(sign, m) ==
    {i \in DOMAIN transactions :
        /\ Dated(i) /\ Signed(i, sign)
        /\ transactions[i].ZDATE1.V >= GreatestTimestamp - m * 2629746}

\* C19: for months = m > 0 both views hold exactly the dated rows of their
\* sign with timestamp t >= Tmax - m * 2629746, Tmax being the greatest
\* timestamp of all dated transactions of any amount; a row exactly at the
\* cutoff is in the view.
LookbackWindow ==
    TrendCall =>
        LET m == Default(request.months, 0)
        IN  m > 0 =>
               /\ ViewIs(GetSpendingData(m), InLookback(-1, m))
               /\ ViewIs(GetIncomeData(m), InLookback(1, m))
               /\ TrendsCover(InLookback(TrendSign, m))

\* A call with months = 1 whose greatest timestamp belongs to a transaction
\* without an amount, served with the one row of its sign, which lies
\* exactly at the cutoff.
LookbackWindowWitness ==
    /\ TrendCall
    /\ request.months = Num(1)
    /\ \E i, j \in DOMAIN transactions :
          /\ ~transactions[i].ZAMOUNT1.Valid
          /\ Dated(i) /\ transactions[i].ZDATE1.V = GreatestTimestamp
          /\ Signed(j, TrendSign) /\ Dated(j)
          /\ transactions[j].ZDATE1.V = GreatestTimestamp - SecondsPerMonth
    /\ SumSeq([i \in DOMAIN response.trends |-> response.trends[i].TransactionCount]) = 1

\* C20: the two views split the dated transactions by the sign of the
\* amount: a positive amount gives a row of that amount in the income view
\* only, a negative amount a row of its magnitude in the spending view only,
\* an amount of 0 or a missing timestamp a row in neither; every amount in
\* both views is strictly positive.
SignPartition ==
    TrendCall =>
        LET positive == {i \in DOMAIN transactions : Dated(i) /\ Signed(i, 1)}
            negative == {i \in DOMAIN transactions : Dated(i) /\ Signed(i, -1)}
            income   == GetIncomeData(0)
            spending == GetSpendingData(0)
        IN  /\ ViewIs(income, positive)
            /\ ViewIs(spending, negative)
            /\ \A i \in DOMAIN income : income[i].Amount > 0
            /\ \A i \in DOMAIN spending : spending[i].Amount > 0
            /\ Default(request.months, 0) <= 0 =>
                   TrendsCover(IF TrendSign = 1 THEN positive ELSE negative)

\* A call served over a snapshot that holds an income, a spending and a
\* zero amount, all dated, and an undated transaction.
SignPartitionWitness ==
    /\ TrendCall
    /\ ~request.months.Valid
    /\ \E i, j, k \in DOMAIN transactions :
          /\ Dated(i) /\ Signed(i, 1)
          /\ Dated(j) /\ Signed(j, -1)
          /\ \/ Dated(k) /\ transactions[k].ZAMOUNT1 = Num(0)
             \/ ~Dated(k) /\ transactions[k].ZAMOUNT1.Valid /\ transactions[k].ZAMOUNT1.V # 0
    /\ Len(response.trends) = 1

-----------------------------------------------------------------------------
(* Properties of the error paths.                                          *)

BalanceCall == request.op = "get_account_balance"

AccountIds == {accounts[i].Z_PK : i \in DOMAIN accounts}

\* C12: get_account_balance for an id that matches no account returns an
\* error result that says the account with that id was not found, carries
\* no account, and is followed by the next call; for an id that matches an
\* account it returns that account with its computed balance.
AccountNotFound ==
    (BalanceCall /\ request.account_id.Valid /\ request.fault = 0) =>
        IF request.account_id.V \notin AccountIds
        THEN /\ response.IsError
             /\ response.Text = <<"account with ID", request.account_id.V, "not found">>
             /\ "account" \notin DOMAIN response
             /\ ENABLED Respond
        ELSE /\ ~response.IsError
             /\ response.account.ID = request.account_id.V
             /\ response.account.Balance = ExpectedBalance(request.account_id.V)

\* A call for an id that the ledger does not hold, served.
AccountNotFoundWitness ==
    /\ BalanceCall /\ request.account_id.Valid /\ request.fault = 0
    /\ request.account_id.V \notin AccountIds
    /\ Len(accounts) = 2
    /\ response.IsError

\* The transactions that carry an amount and name account A in the first or
\* the second link column.
LinkedTxns(A) ==
    {transactions[i].Z_PK : i \in {j \in DOMAIN transactions :
        /\ transactions[j].ZAMOUNT1.Valid
        /\ \/ transactions[j].ZACCOUNT2 = Num(A)
           \/ transactions[j].ZACCOUNT = Num(A)}}

\* C13: list_transactions with a non-zero account_id returns only
\* transactions linked to that account through either link field; with
\* account_id 0 or omitted it returns transactions of all accounts: with a
\* limit that every transaction fits, all that carry an amount.
AccountFilter ==
    (request.op = "list_transactions" /\ request.fault = 0) =>
        LET A == Default(request.account_id, 0)
        IN  IF A # 0
            THEN ~response.IsError =>
                    \A i \in DOMAIN response.transactions :
                        response.transactions[i].ID \in LinkedTxns(A)
            ELSE /\ ~response.IsError
                 /\ Default(request.limit, 0) = 0 =>
                        {response.transactions[i].ID : i \in DOMAIN response.transactions}
                           = {transactions[i].Z_PK : i \in {j \in DOMAIN transactions :
                                                              transactions[j].ZAMOUNT1.Valid}}

\* The storage reads a call of one of the four balance operations issues
\* when none of them fails: the account query, one transaction-sum read for
\* each account row it returns, and for the statistics the income, spending
\* and category queries as well.
ReadsIssued(req) ==
    CASE req.op \in {"list_accounts", "calculate_net_worth"} -> 1 + Len(NamedAccounts)
      [] req.op = "get_account_balance" ->
            IF ~req.account_id.Valid THEN 0
            ELSE IF req.account_id.V \in AccountIds THEN 2 ELSE 1
      [] req.op = "get_financial_stats" -> 4 + Len(NamedAccounts)
      [] OTHER -> 0

DbResults(req) ==
    CASE req.op = "list_accounts" -> {GetAccounts(req.fault)}
      [] req.op = "get_account_balance" ->
            IF req.account_id.Valid
            THEN {GetAccountBalance(req.account_id.V, req.fault)}
            ELSE {[err |-> TRUE, text |-> RequireFloatError(req.account_id)]}
      [] req.op = "list_transactions" ->
            {GetTransactions(Default(req.account_id, 0),
                             IF Default(req.limit, DefaultLimit) = 0 THEN DefaultLimit
                             ELSE Default(req.limit, DefaultLimit),
                             req.fault)}
      [] req.op = "list_categories" -> {GetCategories(req.fault)}
      [] req.op = "get_financial_stats" -> {GetFinancialStats(req.fault)}
      [] req.op = "calculate_net_worth" -> {CalculateNetWorth(req.fault)}
      [] req.op = "get_savings_recommendations" ->
            {AnalyzeSavings(Default(req.months, 0), req.fault, order) :
                order \in Orderings(SpendingCategoryKeys(Default(req.months, 0)))}
      [] req.op \in {"analyze_spending_trends", "analyze_income_trends"} ->
            LET spending == req.op = "analyze_spending_trends"
                groupBy  == NormGroupBy(Default(req.group_by, "month"))
                m        == Default(req.months, 0)
                rows     == IF spending THEN GetSpendingData(m) ELSE GetIncomeData(m)
            IN  IF req.fault = 1
                THEN {[err |-> TRUE,
                       text |-> IF spending THEN "failed to query spending data"
                                ELSE "failed to query income data"]}
                ELSE {[err |-> FALSE, trends |-> TrendsOf(rows, groupBy, order),
                       group_by |-> groupBy, months |-> m] :
                         order \in Orderings(TrendKeys(rows, groupBy))}

\* The result carries what the database layer returned: the error message
\* in an error result, the payload otherwise.
Carries(result, got) ==
    /\ result.IsError = got.err
    /\ IF got.err THEN result.Text = got.text
       ELSE \A f \in DOMAIN result \ {"IsError"} : result[f] = got[f]

-----------------------------------------------------------------------------
(* Properties of the server as a whole.                                    *)

\* C18: no step of the server changes the ledger snapshot, and the result
\* of a call is the one result the call has on the snapshot, so that the
\* same call made again returns it again.
ReadOnlyRepeatable ==
    [][/\ snapshot' = snapshot
       /\ request'.op # "none" =>
              \A got \in DbResults(request') : Carries(response', got)]_vars

-----------------------------------------------------------------------------
(* Properties of the concurrent calls.                                     *)

\* The request of a call in flight, as the one-call-at-a-time server gets it.
AloneRequest(call) ==
    [op |-> call.op, account_id |-> call.account_id, months |-> call.months,
     limit |-> NullNum, group_by |-> NullStr, fault |-> 0]

\* C17: the result of a call that ran with its reads interleaved with those
\* of other calls is a result the database layer gives the same call when
\* it runs alone on the snapshot.
ConcurrentCallsAlone ==
    \A c \in DOMAIN inflight :
        inflight[c].pc = "done" =>
            \E got \in DbResults(AloneRequest(inflight[c])) :
                Carries(inflight[c].result, got)

\* Two list_accounts calls whose reads interleaved: the first has returned
\* both accounts, the second has read one balance so far.
ConcurrentCallsAloneWitness ==
    /\ inflight[1].op = "list_accounts" /\ inflight[1].pc = "done"
    /\ inflight[1].interleaved
    /\ Len(inflight[1].result.accounts) = 2
    /\ inflight[2].op = "list_accounts" /\ inflight[2].pc = "next"
    /\ inflight[2].interleaved
    /\ Len(inflight[2].acc) = 1

\* C16: a get_account_balance call without a numeric account_id issues no
\* storage read: it goes straight to returning, and returns an error result.
NoReadWithoutAccountId ==
    \A c \in DOMAIN inflight :
        (inflight[c].op = "get_account_balance" /\ ~inflight[c].account_id.Valid) =>
            /\ inflight[c].reads = 0
            /\ inflight[c].pc \in {"return", "done"}
            /\ inflight[c].pc = "done" => inflight[c].result.IsError

\* One call without account_id and one with a value that is not a number
\* have both returned their error, and neither has read.
NoReadWithoutAccountIdWitness ==
    /\ inflight[1].op = "get_account_balance" /\ inflight[1].account_id = NullNum
    /\ inflight[1].pc = "done" /\ inflight[1].result.IsError /\ inflight[1].reads = 0
    /\ inflight[2].op = "get_account_balance" /\ inflight[2].account_id = NotANumber
    /\ inflight[2].pc = "done"
    /\ inflight[2].result = ErrorResult("argument is not a float64")

-----------------------------------------------------------------------------
(* Properties of the transaction list.                                     *)

\* C30: every transaction that list_transactions returns for the account
\* filter A reports account_id = A, the transactions linked to A through
\* the second link field only (ZACCOUNT) included.
ReportedAccount ==
    (request.op = "list_transactions" /\ request.fault = 0
        /\ Default(request.account_id, 0) > 0 /\ ~response.IsError) =>
        \A i \in DOMAIN response.transactions :
            response.transactions[i].AccountID = request.account_id.V

-----------------------------------------------------------------------------
(* Properties of the savings window.                                       *)

\* C29: within one savings analysis the income total and the spending total
\* cover the same interval: both are taken over the transactions of their
\* sign from one cutoff on, the greatest timestamp of all dated
\* transactions less the months of the call.
SameWindow ==
    SavingsCall =>
        LET a == response.analysis
            m == IF SavingsMonthsArg <= 0 THEN 6 ELSE SavingsMonthsArg
        IN  /\ a.TotalIncome
                  = SumOver([i \in InLookback(1, m) |-> transactions[i].ZAMOUNT1.V],
                            InLookback(1, m))
            /\ a.TotalSpending
                  = SumOver([i \in InLookback(-1, m) |-> Abs(transactions[i].ZAMOUNT1.V)],
                            InLookback(-1, m))

\* A call with months = 2 whose latest transaction is a spending: an income
\* eleven months older lies before the common cutoff and is left out,
\* though it is the latest income.
SameWindowWitness ==
    /\ SavingsCall
    /\ request.months = Num(2)
    /\ response.analysis.TotalIncome = 0
    /\ response.analysis.TotalSpending = 500
    /\ \E i, j \in DOMAIN transactions :
          /\ Signed(i, 1) /\ transactions[i].ZDATE1.V = Feb2001
          /\ Signed(j, -1) /\ transactions[j].ZDATE1.V = GreatestTimestamp

-----------------------------------------------------------------------------
(* Properties of the top spending categories and the recommendations.      *)

\* The spending rows that the served savings analysis was computed from.
SavingsSpendingRows == GetSpendingData(IF SavingsMonthsArg <= 0 THEN 6 ELSE SavingsMonthsArg)

\* The rows of one category, by position.
RowsOfCategory(rows, name) == {i \in DOMAIN rows : rows[i].CategoryName = name}

CategoryTotal(rows, name) ==
    SumOver([i \in RowsOfCategory(rows, name) |-> rows[i].Amount], RowsOfCategory(rows, name))

\* C21: top_spending_categories holds min(5, number of spending categories)
\* entries of distinct categories in non-increasing order of total amount;
\* no category left out has a greater total than a listed one; each entry
\* carries the total and the number of the spending rows of its category,
\* and its percentage is amount / totalSpending * 100.
TopCategoriesRanked ==
    SavingsCall =>
        LET a      == response.analysis
            top    == a.TopSpendingCategories
            rows   == SavingsSpendingRows
            names  == {rows[i].CategoryName : i \in DOMAIN rows}
            listed == {top[i].CategoryName : i \in DOMAIN top}
        IN  /\ Len(top) = IF Cardinality(names) < 5 THEN Cardinality(names) ELSE 5
            /\ listed \subseteq names
            /\ Cardinality(listed) = Len(top)
            /\ \A i, j \in DOMAIN top : i < j => top[i].TotalAmount >= top[j].TotalAmount
            /\ \A c \in names \ listed : \A i \in DOMAIN top :
                  CategoryTotal(rows, c) <= top[i].TotalAmount
            /\ \A i \in DOMAIN top :
                  /\ top[i].TotalAmount = CategoryTotal(rows, top[i].CategoryName)
                  /\ top[i].TransactionCount
                        = Cardinality(RowsOfCategory(rows, top[i].CategoryName))
                  /\ top[i].Percentage.d > 0
                  /\ IF a.TotalSpending > 0
                     THEN top[i].Percentage.n * a.TotalSpending
                             = top[i].TotalAmount * 100 * top[i].Percentage.d
                     ELSE top[i].Percentage.n = 0

\* Six spending categories served as a list of five: the category left out
\* has the total of the last one listed, and the first one listed has more
\* than the second.
TopCategoriesRankedWitness ==
    /\ SavingsCall
    /\ Len(response.analysis.TopSpendingCategories) = 5
    /\ Cardinality({SavingsSpendingRows[i].CategoryName : i \in DOMAIN SavingsSpendingRows}) = 6
    /\ response.analysis.TopSpendingCategories[1].TotalAmount
          > response.analysis.TopSpendingCategories[2].TotalAmount
    /\ \E i \in DOMAIN SavingsSpendingRows :
          /\ \A k \in 1..5 : response.analysis.TopSpendingCategories[k].CategoryName
                                  # SavingsSpendingRows[i].CategoryName
          /\ SavingsSpendingRows[i].Amount
                = response.analysis.TopSpendingCategories[5].TotalAmount

\* The place of a recommendation in the order of the rules.
RuleRank(rec) ==
    CASE rec.Title \in TierTitles -> 1
      [] rec.Title = "Review Spending on" -> 2
      [] rec.Title = "Multiple High-Spending Categories" -> 3
      [] rec.Title = "High Spending Ratio" -> 4
      [] rec.Title = "Build Emergency Fund" -> 5
      [] OTHER -> 0

\* C22: the recommendations of one analysis follow the order of the rules:
\* the savings-rate tier first, then 'Review Spending on <category>',
\* 'Multiple High-Spending Categories', 'High Spending Ratio' and 'Build
\* Emergency Fund', each at most once, so between 1 and 5 entries.
RuleOrder ==
    SavingsCall =>
        LET recs == response.analysis.Recommendations
        IN  /\ Len(recs) >= 1 /\ Len(recs) <= 5
            /\ RuleRank(recs[1]) = 1
            /\ \A i \in DOMAIN recs : RuleRank(recs[i]) \in 1..5
            /\ \A i, j \in DOMAIN recs : i < j => RuleRank(recs[i]) < RuleRank(recs[j])

\* An analysis in which all five rules fire: income 1000 against spending
\* 1000 in three categories.
RuleOrderWitness ==
    /\ SavingsCall
    /\ Len(response.analysis.Recommendations) = 5
    /\ response.analysis.Recommendations[4].Title = "High Spending Ratio"

\* C23: 'Review Spending on <category>' is produced exactly when there is a
\* spending category and the first-ranked one has strictly more than 30% of
\* the total spending; it is a medium-priority suggestion that names that
\* category, with 10% of the category's total as its impact.
ReviewTopCategory ==
    SavingsCall =>
        LET a       == response.analysis
            top     == a.TopSpendingCategories
            recs    == a.Recommendations
            reviews == {i \in DOMAIN recs : recs[i].Title = "Review Spending on"}
        IN  /\ reviews # {} <=>
                  (Len(top) > 0 /\ top[1].TotalAmount * 100 > 30 * a.TotalSpending)
            /\ \A i \in reviews :
                  /\ recs[i].Type = "suggestion" /\ recs[i].Priority = "medium"
                  /\ recs[i].Category = top[1].CategoryName
                  /\ recs[i].Impact.d > 0
                  /\ recs[i].Impact.n * 10 = top[1].TotalAmount * recs[i].Impact.d

\* An analysis whose first-ranked category has exactly 30% of the spending
\* (300 of 1000) and that carries no 'Review Spending on' recommendation.
ReviewTopCategoryWitness ==
    /\ SavingsCall
    /\ response.analysis.TotalSpending = 1000
    /\ response.analysis.TopSpendingCategories[1].TotalAmount = 300
    /\ \A i \in DOMAIN response.analysis.Recommendations :
          response.analysis.Recommendations[i].Title # "Review Spending on"

-----------------------------------------------------------------------------
(* Properties of the impacts and of the spending-ratio rule.               *)

\* C24: every recommendation of a savings analysis has an impact >= 0, the
\* Low and Moderate tiers with their impact 0.20 * income - netSavings
\* included.
ImpactNonNegative ==
    SavingsCall =>
        \A i \in DOMAIN response.analysis.Recommendations :
            /\ response.analysis.Recommendations[i].Impact.d > 0
            /\ response.analysis.Recommendations[i].Impact.n >= 0

\* A Moderate tier (income 1000, spending 850) whose impact is 200 - 150 = 50.
ImpactNonNegativeWitness ==
    /\ SavingsCall
    /\ response.analysis.TotalIncome = 1000
    /\ response.analysis.TotalSpending = 850
    /\ response.analysis.Recommendations[1].Title = "Moderate Savings Rate"
    /\ FracEq(response.analysis.Recommendations[1].Impact, Whole(50))

\* C25: 'High Spending Ratio' is produced exactly when the total income is
\* positive and the savings rate is below 10%; so never beside the Moderate
\* or the Excellent tier, and never with a total income of 0.
RatioWithLowRate ==
    SavingsCall =>
        LET a     == response.analysis
            recs  == a.Recommendations
            ratio == {i \in DOMAIN recs : recs[i].Title = "High Spending Ratio"}
        IN  /\ ratio # {} <=> (a.TotalIncome > 0 /\ FracLess(a.SavingsRate, Whole(10)))
            /\ ratio # {} =>
                  recs[1].Title \notin {"Moderate Savings Rate", "Excellent Savings Rate"}
            /\ a.TotalIncome = 0 => ratio = {}

-----------------------------------------------------------------------------
(* Properties of the statistics.                                           *)

StatsCall == request.op = "get_financial_stats" /\ ~response.IsError

\* The transactions that enter the statistics: dated, with an amount other
\* than 0.
InStats == {i \in DOMAIN transactions : Dated(i) /\ (Signed(i, 1) \/ Signed(i, -1))}

\* The dates of those that SQLite renders.
StatsDates == {DateOf(transactions[i].ZDATE1.V) : i \in InStats} \ {EmptyStr}

\* C26: first_transaction_date is non-empty exactly when
\* last_transaction_date is, first <= last as strings, and date_range is
\* '<first> to <last>' or empty, never 'Since <first>'.
FirstWithLast ==
    StatsCall =>
        LET s == response.stats
        IN  /\ s.FirstTransactionDate = EmptyStr <=> s.LastTransactionDate = EmptyStr
            /\ s.FirstTransactionDate = EmptyStr <=> StatsDates = {}
            /\ ~StrLess(s.LastTransactionDate, s.FirstTransactionDate)
            /\ s.FirstTransactionDate # EmptyStr =>
                  /\ s.FirstTransactionDate \in StatsDates
                  /\ s.LastTransactionDate \in StatsDates
                  /\ \A d \in StatsDates : /\ ~StrLess(d, s.FirstTransactionDate)
                                            /\ ~StrLess(s.LastTransactionDate, d)
            /\ s.DateRange = IF s.FirstTransactionDate = EmptyStr THEN << >>
                             ELSE <<"range", s.FirstTransactionDate, s.LastTransactionDate>>

\* Statistics over a ledger that holds a transaction without a rendered date
\* beside transactions of two different dates.
FirstWithLastWitness ==
    /\ StatsCall
    /\ \E i \in InStats : DateOf(transactions[i].ZDATE1.V) = EmptyStr
    /\ response.stats.FirstTransactionDate # EmptyStr
    /\ response.stats.FirstTransactionDate # response.stats.LastTransactionDate
    /\ response.stats.DateRange[1] = "range"

-----------------------------------------------------------------------------
(* Properties of the views over transactions with several categories.      *)

AmountsOf(txns) == SumOver([i \in txns |-> Abs(transactions[i].ZAMOUNT1.V)], txns)

\* C28: each transaction enters the income or the spending view, and the
\* trend totals and counts, the savings totals and the statistics taken from
\* them, with its amount and one count exactly once, whatever the number of
\* its category assignments.  (A trend leaves out the rows whose date is not
\* rendered.)
CountedOnce ==
    LET incomes   == {i \in DOMAIN transactions : Dated(i) /\ Signed(i, 1)}
        spendings == {i \in DOMAIN transactions : Dated(i) /\ Signed(i, -1)}
    IN  /\ (TrendCall /\ Default(request.months, 0) <= 0) =>
              TrendsCover({i \in IF TrendSign = 1 THEN incomes ELSE spendings :
                             Renders(transactions[i].ZDATE1.V)})
        /\ SavingsCall =>
              /\ response.analysis.TotalIncome
                    = AmountsOf(InLookback(1, EffectiveMonths(SavingsMonthsArg)))
              /\ response.analysis.TotalSpending
                    = AmountsOf(InLookback(-1, EffectiveMonths(SavingsMonthsArg)))
        /\ StatsCall =>
              /\ response.stats.IncomeTransactions = Cardinality(incomes)
              /\ response.stats.ExpenseTransactions = Cardinality(spendings)
              /\ response.stats.TotalIncome = AmountsOf(incomes)
              /\ response.stats.TotalSpending = AmountsOf(spendings)

====
